---- MODULE Spec2Model ----
(***************************************************************************)
(* A model of the asynchronous call protocol of pic-js:                    *)
(*   - PocketIcClient (packages/pic/src/pocket-ic-client.ts), the session  *)
(*     client that owns one PocketIC instance, and                         *)
(*   - Http2Client (packages/pic/src/http2-client.ts and the second        *)
(*     revision of the same file kept in unnamed/part_005), the transport  *)
(*     client with its timeout race and its polling.                       *)
(* The session client is checked under Spec, in which the transport is the *)
(* environment: every call of serverClient.jsonPost / jsonGet / request    *)
(* settles with one of the outcomes the transport can produce.  The        *)
(* transport client is checked under SpecHttp, in which the server is the  *)
(* environment.                                                            *)
(***************************************************************************)
EXTENDS Integers, Sequences, FiniteSets, TLC

\* ------------------------------------------------------------------------
\* Program constants
\* ------------------------------------------------------------------------

\* pocket-ic-client.ts:87
AWAIT_INGRESS_STATUS_ROUNDS == 100

\* ------------------------------------------------------------------------
\* Values
\* ------------------------------------------------------------------------

\* A function either returns a value or throws an error.
Ret(v) == [tag |-> "return", ret |-> v]
Throw(e) == [tag |-> "throw", err |-> e]

\* `new Error(message)`; messages are kept as sequences of their parts.
Error(parts) == [name |-> "Error", message |-> parts]

\* Errors of the transport client (unnamed/part_006).
Http2ClientError(name, parts, status) ==
    [name |-> name, message |-> parts, status |-> status]

NoStatus == 0 - 1

ServerRequestTimeoutError ==
    Http2ClientError("ServerRequestTimeoutError",
                     <<"A request to the PocketIC server timed out.">>, NoStatus)

ServerBusyError(message, status) ==
    Http2ClientError("ServerBusyError", <<message>>, status)

ServerProcessingError(message, status) ==
    Http2ClientError("ServerProcessingError", <<message>>, status)

ServerResponseError(parts, status) ==
    Http2ClientError("ServerResponseError", <<"Server error: ">> \o parts, status)

UnknownStateError(status) ==
    Http2ClientError("UnknownStateError", <<"Server returned an unknown state">>, status)

\* JSON null / undefined.
\* A TypeError of the runtime.
TypeError(message) == Http2ClientError("TypeError", <<message>>, NoStatus)

Null == [json |-> "null"]

\* util.isNil and util.isNotNil.
isNil(x) == x = Null
isNotNil(x) == ~isNil(x)

\* `undefined`, the value of a Promise<void>.
Undefined == [json |-> "undefined"]

\* ------------------------------------------------------------------------
\* Wire codec (pocket-ic-client-types.ts), the part the call protocol uses
\* ------------------------------------------------------------------------

\* Byte sequences that cross the wire in this model.
Blobs == {<<>>, <<1>>, <<255>>}

\* util.base64Encode / util.base64Decode on Blobs.
base64Encode(bytes) ==
    CASE bytes = <<>> -> ""
      [] bytes = <<1>> -> "AQ=="
      [] bytes = <<255>> -> "/w=="
      [] bytes = <<4>> -> "BA=="
      [] bytes = <<68, 73, 68, 76>> -> "RElETA=="
      [] bytes = <<68, 73, 68, 76, 1>> -> "RElETAE="
      [] bytes = <<68, 73, 68, 76, 255>> -> "RElETP8="
      [] bytes = <<68, 73, 68, 76, 1, 0>> -> "RElETAEA"
      [] bytes = <<68, 73, 68, 76, 255, 0>> -> "RElETP8A"

base64Decode(text) ==
    CASE text = "" -> <<>>
      [] text = "AQ==" -> <<1>>
      [] text = "/w==" -> <<255>>
      [] text = "BA==" -> <<4>>
      [] text = "RElETA==" -> <<68, 73, 68, 76>>
      [] text = "RElETAE=" -> <<68, 73, 68, 76, 1>>
      [] text = "RElETP8=" -> <<68, 73, 68, 76, 255>>
      [] text = "RElETAEA" -> <<68, 73, 68, 76, 1, 0>>
      [] text = "RElETP8A" -> <<68, 73, 68, 76, 255, 0>>

\* A Principal is its byte sequence.
base64EncodePrincipal(principal) == base64Encode(principal)
base64DecodePrincipal(text) == base64Decode(text)

\* EncodedEffectivePrincipal: 'None' | {SubnetId: b64} | {CanisterId: b64}.
EncodedNone == [enc |-> "None"]
EncodedSubnetId(b64) == [enc |-> "SubnetId", SubnetId |-> b64]
EncodedCanisterId(b64) == [enc |-> "CanisterId", CanisterId |-> b64]

\* EffectivePrincipal | null: {subnetId: Principal} | {canisterId: Principal}.
SubnetIdOf(p) == [eff |-> "subnetId", subnetId |-> p]
CanisterIdOf(p) == [eff |-> "canisterId", canisterId |-> p]

decodeEffectivePrincipal_AlwaysNull(effectivePrincipal) == Ret(Null)

encodeEffectivePrincipal(effectivePrincipal) ==
    IF isNil(effectivePrincipal) THEN EncodedNone
    ELSE IF effectivePrincipal.eff = "subnetId"
         THEN EncodedSubnetId(base64EncodePrincipal(effectivePrincipal.subnetId))
         ELSE EncodedCanisterId(base64EncodePrincipal(effectivePrincipal.canisterId))

\* base64DecodePrincipal(undefined): Buffer.from(undefined, 'base64') throws.
NotAString ==
    Throw(TypeError("The first argument must be of type string"))

\* An object that is neither 'None' nor {SubnetId} takes the last branch,
\* where CanisterId is undefined unless the object carries it.
decodeEffectivePrincipal(effectivePrincipal) ==
    IF effectivePrincipal = EncodedNone THEN Ret(Null)
    ELSE IF "SubnetId" \in DOMAIN effectivePrincipal
         THEN Ret(SubnetIdOf(base64DecodePrincipal(effectivePrincipal.SubnetId)))
         ELSE IF "CanisterId" \in DOMAIN effectivePrincipal
              THEN Ret(CanisterIdOf(
                       base64DecodePrincipal(effectivePrincipal.CanisterId)))
              ELSE NotAString

\* JSON payloads of call results: {Ok: T} | {Err: reject}, and the plain
\* object {} that carries neither.
JsonOk(v) == [json |-> "Ok", Ok |-> v]
JsonErr(r) == [json |-> "Err", Err |-> r]
JsonObject == [json |-> "{}"]

\* EncodedCanisterCallRejectResponse
RejectResponse == [reject_code |-> 5, reject_message |-> "trapped",
           error_code |-> 524, certified |-> TRUE]

\* Reject messages: a plain one and a trap message of one line.
TrapMessage ==
    "Error from Canister lxzze-o7777-77777-aaaaq-cai: Canister called `ic0.trap` with message: 'boom'"

\* The groups of the trap pattern in the first line of the message, or null.
TrapMatch(message) ==
    IF message[1] = "Canister call failed: " /\ message[2] = TrapMessage
    THEN [fullId |-> "lxzze-o7777-77777-aaaaq-cai", trapMsg |-> "boom"]
    ELSE Null

shortenPrincipal(p) ==
    CASE p = "lxzze-o7777-77777-aaaaq-cai" -> "lxzze-o7777"

\* formatTrapMessageIfAny on a message of one line: the whole line, reject
\* code, error code and certified flag included, is replaced.
formatTrapMessageIfAny(message) ==
    LET m == TrapMatch(message)
    IN  IF m = Null THEN Null
        ELSE <<"bug ", "red[", "square", "red", shortenPrincipal(m.fullId),
               "] [CALL TRAP]: ", m.trapMsg, "reset">>

\* decodeResultResponse: throws on Err, returns res.Ok otherwise (undefined
\* when the object has no Ok).
decodeResultResponse(res) ==
    IF res.json = "Err"
    THEN LET baseMessage ==
                 <<"Canister call failed: ", res.Err.reject_message,
                   ". Reject code: ", ToString(res.Err.reject_code),
                   ". Error code: ", ToString(res.Err.error_code),
                   ". Certified: ", ToString(res.Err.certified)>>
             pretty == formatTrapMessageIfAny(baseMessage)
         IN  Throw(Error(IF pretty = Null THEN baseMessage ELSE pretty))
    ELSE Ret(IF res.json = "Ok" THEN res.Ok ELSE Undefined)

decodeCanisterCallResponse(res) ==
    LET okRes == decodeResultResponse(res)
    IN  IF okRes.tag = "throw" THEN okRes
        ELSE IF res.json = "Ok"
             THEN Ret([body |-> base64Decode(okRes.ret)])
             ELSE NotAString

\* EncodedCanisterCallId: {effective_principal, message_id}
EncodedCanisterCallId(ep, id) == [effective_principal |-> ep, message_id |-> id]

decodeSubmitCanisterCallResponse(res) ==
    LET okRes == decodeResultResponse(res)
        effectivePrincipal ==
            decodeEffectivePrincipal(okRes.ret.effective_principal)
    IN  IF okRes.tag = "throw" THEN okRes
        ELSE IF okRes.ret = Undefined
             THEN Throw(TypeError("Cannot read properties of undefined"))
             ELSE IF effectivePrincipal.tag = "throw" THEN effectivePrincipal
                  ELSE Ret([effectivePrincipal |-> effectivePrincipal.ret,
                            messageId |-> okRes.ret.message_id])

encodeAwaitCanisterCallRequest_NoPrincipal(req) ==
    EncodedCanisterCallId(EncodedNone, req.messageId)

encodeAwaitCanisterCallRequest(req) ==
    EncodedCanisterCallId(encodeEffectivePrincipal(req.effectivePrincipal),
                          req.messageId)

\* caller is always undefined in awaitCall, so raw_caller is undefined.
encodeIngressStatusRequest(req) ==
    [raw_message_id |-> req.messageId, raw_caller |-> Undefined]

decodeIngressStatusResponse_ErrIsPending(res) ==
    IF isNil(res) \/ res.json = "Err" THEN Ret(Null)
    ELSE IF res.json = "Ok"
         THEN decodeCanisterCallResponse(res)
         ELSE Throw(Error(<<"Unexpected ingress status response ">>))

decodeIngressStatusResponse(res) ==
    IF isNil(res) THEN Ret(Null)
    ELSE IF res.json = "Ok" \/ res.json = "Err"
         THEN decodeCanisterCallResponse(res)
         ELSE Throw(Error(<<"Unexpected ingress status response ">>))

RECURSIVE Pow(_, _)
Pow(b, n) == IF n = 0 THEN 1 ELSE b * Pow(b, n - 1)

\* A JavaScript number is an IEEE 754 double: sig * 2^exp, with sig a natural
\* number of at most 53 bits written least significant bit first, and odd (or
\* empty for 0) so that equal numbers are equal records.
RECURSIVE Bits(_)
Bits(k) == IF k = 0 THEN <<>> ELSE <<k % 2>> \o Bits(k \div 2)

\* bits * c + carry, for c and carry small.
RECURSIVE MulSmall(_, _, _)
MulSmall(bits, c, carry) ==
    IF bits = <<>> THEN Bits(carry)
    ELSE LET t == Head(bits) * c + carry
         IN  <<t % 2>> \o MulSmall(Tail(bits), c, t \div 2)

\* The natural number with the given decimal digits, first digit first.
RECURSIVE Decimal(_)
Decimal(digits) ==
    IF digits = <<>> THEN <<>>
    ELSE MulSmall(Decimal(SubSeq(digits, 1, Len(digits) - 1)), 10,
                  digits[Len(digits)])

Zeros(k) == [i \in 1..k |-> 0]

RECURSIVE Increment(_)
Increment(bits) ==
    IF bits = <<>> THEN <<1>>
    ELSE IF Head(bits) = 0 THEN <<1>> \o Tail(bits)
         ELSE <<0>> \o Increment(Tail(bits))

\* Round to nearest, ties to even, at 53 significant bits.
RoundToDouble(bits) ==
    LET k == Len(bits) - 53
        high == SubSeq(bits, k + 1, Len(bits))
        sticky == \E i \in 1..(k - 1) : bits[i] = 1
        roundUp == bits[k] = 1 /\ (sticky \/ high[1] = 1)
    IN  IF k <= 0 THEN bits
        ELSE Zeros(k) \o (IF roundUp THEN Increment(high) ELSE high)

RECURSIVE TrailingZeros(_)
TrailingZeros(bits) ==
    IF bits = <<>> \/ Head(bits) = 1 THEN 0 ELSE 1 + TrailingZeros(Tail(bits))

RECURSIVE StripLeadingZeros(_)
StripLeadingZeros(bits) ==
    IF bits = <<>> \/ bits[Len(bits)] = 1 THEN bits
    ELSE StripLeadingZeros(SubSeq(bits, 1, Len(bits) - 1))

Number(bits, exp) ==
    LET z == TrailingZeros(bits)
    IN  IF z = Len(bits) THEN [sig |-> <<>>, exp |-> 0]
        ELSE [sig |-> SubSeq(bits, z + 1, Len(bits)), exp |-> exp + z]

\* The bits of an integral number.
IntegerBits(x) == Zeros(x.exp) \o x.sig

\* The base-1024 digits of bits, least significant first, and back.
Digits(bits) ==
    [i \in 1..((Len(bits) + 9) \div 10) |->
        LET bit(j) == IF 10 * (i - 1) + j <= Len(bits)
                      THEN bits[10 * (i - 1) + j] ELSE 0
        IN  bit(1) + 2 * bit(2) + 4 * bit(3) + 8 * bit(4) + 16 * bit(5)
                + 32 * bit(6) + 64 * bit(7) + 128 * bit(8) + 256 * bit(9)
                + 512 * bit(10)]

DigitBits(digits) ==
    [j \in 1..(10 * Len(digits)) |->
        (digits[(j + 9) \div 10] \div Pow(2, (j - 1) % 10)) % 2]

\* Long division of a number in base-1024 digits by c, most significant
\* digit first: the quotient and the remainder.
RECURSIVE DivDigits(_, _)
DivDigits(digits, c) ==
    IF digits = <<>> THEN [quotient |-> <<>>, remainder |-> 0]
    ELSE LET up == DivDigits(Tail(digits), c)
             r == 1024 * up.remainder + Head(digits)
         IN  [quotient |-> <<r \div c>> \o up.quotient, remainder |-> r % c]

DivSmall(bits, c) ==
    LET d == DivDigits(Digits(bits), c)
    IN  [quotient |-> DigitBits(d.quotient), remainder |-> d.remainder]

\* a + b + carry on bit sequences.
RECURSIVE AddBits(_, _, _)
AddBits(a, b, carry) ==
    IF a = <<>> /\ b = <<>> THEN Bits(carry)
    ELSE LET x == IF a = <<>> THEN 0 ELSE Head(a)
             y == IF b = <<>> THEN 0 ELSE Head(b)
             t == x + y + carry
         IN  <<t % 2>> \o AddBits(IF a = <<>> THEN a ELSE Tail(a),
                                  IF b = <<>> THEN b ELSE Tail(b), t \div 2)

\* The number x + y, for x and y not negative.
Plus(x, y) ==
    LET e == IF x.exp < y.exp THEN x.exp ELSE y.exp
        sum == AddBits(Zeros(x.exp - e) \o x.sig, Zeros(y.exp - e) \o y.sig, 0)
    IN  Number(RoundToDouble(sum), e)

\* x * c in double arithmetic.
Times(x, c) == Number(RoundToDouble(MulSmall(x.sig, c, 0)), x.exp)

\* x / c in double arithmetic: the quotient is taken with enough fraction bits
\* and a sticky bit for what is left, then rounded.
FractionBits == 53 + 21

Over(x, c) ==
    LET d == DivSmall(Zeros(FractionBits) \o x.sig, c)
        q == StripLeadingZeros(d.quotient)
        sticky == IF d.remainder = 0 THEN 0 ELSE 1
    IN  Number(RoundToDouble(<<sticky>> \o q), x.exp - FractionBits - 1)

\* floor(x / c) of an integral number.
FloorOver(x, c) ==
    Number(StripLeadingZeros(DivSmall(IntegerBits(x), c).quotient), 0)

isInteger(x) == x.exp >= 0

decodeGetTimeResponse(res) ==
    [millisSinceEpoch |-> Over(res.nanos_since_epoch, 1000000)]

encodeSetTimeRequest(req) ==
    [nanos_since_epoch |-> Times(req.millisSinceEpoch, 1000000)]

\* util.hexDecode on the texts that cross the wire in this model.
hexDecode(text) ==
    CASE text = "" -> <<>>
      [] text = "01" -> <<1>>
      [] text = "ff" -> <<255>>

\* encodeUploadBlobRequest: the request body is the blob itself.
encodeUploadBlobRequest(req) == req.blob

\* decodeUploadBlobResponse: the response text is the blob id in hex.
decodeUploadBlobResponse_Fixed(text) == [blobId |-> <<1>>]

decodeUploadBlobResponse(text) == [blobId |-> hexDecode(text)]

\* encodeSetStableMemoryRequest
encodeSetStableMemoryRequest_Inline(req) ==
    [canister_id |-> base64EncodePrincipal(req.canisterId),
     blob_id |-> req.blob]

encodeSetStableMemoryRequest(req) ==
    [canister_id |-> base64EncodePrincipal(req.canisterId),
     blob_id |-> base64Encode(req.blobId)]

\* CanisterCallRequest: the call envelope.
CallRequest ==
    [sender |-> <<>>, canisterId |-> <<1>>, method |-> "inc", payload |-> <<255>>,
     effectivePrincipal |-> Null]

encodeCanisterCallRequest(req) ==
    [sender |-> base64EncodePrincipal(req.sender),
     canister_id |-> base64EncodePrincipal(req.canisterId),
     method |-> req.method,
     payload |-> base64Encode(req.payload),
     effective_principal |-> encodeEffectivePrincipal(req.effectivePrincipal)]

encodeSubmitCanisterCallRequest(req) == encodeCanisterCallRequest(req)

\* CreateInstanceRequest: every field is optional, and a request is the
\* function from the names of the fields it has to their values.
TopologyValidationError ==
    Error(<<"The provided subnet configuration is invalid. At least one subnet must be configured and the number of both application and system subnets must be at least 0 (non-negative).">>)

\* options.name, undefined when the field is absent.
Field(options, name) ==
    IF name \in DOMAIN options THEN options[name] ELSE Null

\* encodeDtsFlag(config.enableDeterministicTimeSlicing): `=== false`.
encodeDtsFlag(config) ==
    IF /\ "enableDeterministicTimeSlicing" \in DOMAIN config
       /\ config["enableDeterministicTimeSlicing"] = FALSE
    THEN "Disabled" ELSE "Enabled"

\* encodeInstructionConfig(config.enableBenchmarkingInstructionLimits):
\* `=== true`.
encodeInstructionConfig(config) ==
    IF /\ "enableBenchmarkingInstructionLimits" \in DOMAIN config
       /\ config["enableBenchmarkingInstructionLimits"] = TRUE
    THEN "Benchmarking" ELSE "Production"

\* encodeSubnetConfig: undefined for no config; the state types are those of
\* SubnetStateType, so the default branch of the switch is not taken.
encodeSubnetConfig(config) ==
    IF isNil(config) THEN Null
    ELSE [dts_flag |-> encodeDtsFlag(config),
          instruction_config |-> encodeInstructionConfig(config),
          state_config |->
              IF config.state.type = "new" THEN [json |-> "New"]
              ELSE [json |-> "FromPath", FromPath |-> config.state.path]]

\* encodeManySubnetConfigs(configs = []): map, then filter(isNotNil).
encodeManySubnetConfigs(options, name) ==
    LET configs == IF name \in DOMAIN options THEN options[name] ELSE <<>>
    IN  SelectSeq([i \in 1..Len(configs) |-> encodeSubnetConfig(configs[i])],
                  isNotNil)

defaultApplicationSubnet == [state |-> [type |-> "new"]]

\* The subnet_config_set encodeCreateInstanceRequest builds.
subnet_config_set(req) ==
    LET defaultOptions ==
            IF req = Undefined
            THEN [application |-> <<defaultApplicationSubnet>>]
            ELSE req
    IN  [nns |-> encodeSubnetConfig(Field(defaultOptions, "nns")),
         sns |-> encodeSubnetConfig(Field(defaultOptions, "sns")),
         ii |-> encodeSubnetConfig(Field(defaultOptions, "ii")),
         fiduciary |-> encodeSubnetConfig(Field(defaultOptions, "fiduciary")),
         bitcoin |-> encodeSubnetConfig(Field(defaultOptions, "bitcoin")),
         system |-> encodeManySubnetConfigs(defaultOptions, "system"),
         application |->
             IF "application" \in DOMAIN defaultOptions
             THEN encodeManySubnetConfigs(defaultOptions, "application")
             ELSE <<encodeSubnetConfig(defaultApplicationSubnet)>>,
         verified_application |->
             encodeManySubnetConfigs(defaultOptions, "verifiedApplication")]

\* The condition under which encodeCreateInstanceRequest throws.
InvalidTopology(set) ==
    \/ /\ isNil(set.nns)
       /\ isNil(set.sns)
       /\ isNil(set.ii)
       /\ isNil(set.fiduciary)
       /\ isNil(set.bitcoin)
       /\ Len(set.system) = 0
       /\ Len(set.application) = 0
    \/ Len(set.system) < 0
    \/ Len(set.application) < 0

encodeCreateInstanceRequest(req) ==
    LET options ==
            [subnet_config_set |-> subnet_config_set(req),
             nonmainnet_features |->
                 IF req # Undefined /\ "nonmainnetFeatures" \in DOMAIN req
                 THEN req["nonmainnetFeatures"] ELSE FALSE]
    IN  IF InvalidTopology(options.subnet_config_set)
        THEN Throw(TopologyValidationError)
        ELSE Ret(options)

\* ------------------------------------------------------------------------
\* Session client: PocketIcClient (pocket-ic-client.ts)
\* ------------------------------------------------------------------------

VARIABLES
    isInstanceDeleted,  \* PocketIcClient.isInstanceDeleted
    task                \* per caller: the invocation it is in

\* The callers of one client.  "caller" may invoke every operation; "other"
\* runs next to it and invokes the operations of ConcurrentOps.
Tasks == {"caller", "other"}

ConcurrentOps ==
    {"deleteInstance", "tick", "getTopology",
     "mockPendingHttpsOutcall"}

Callers(op) == IF op \in ConcurrentOps THEN Tasks ELSE {"caller"}

\* PocketIcClient.instancePath
instancePath == "/instances/0"

\* The outcome of one transport call, as the transport client settles it.
Resolved(v) == [settled |-> "resolved", value |-> v]
Rejected(e) == [settled |-> "rejected", reason |-> e]
Pending == [settled |-> "pending"]

\* The failures a transport call can end with.
TransportErrors == {ServerRequestTimeoutError}

\* Handles the server hands out for a submitted call.
CallIds ==
    {EncodedCanisterCallId(EncodedNone, <<1>>),
     EncodedCanisterCallId(EncodedSubnetId("/w=="), <<255>>),
     EncodedCanisterCallId(EncodedCanisterId("AQ=="), <<1, 255>>)}

\* Times the server reports, in nanoseconds: 2.5 ms and a present-day time.
TimesRead ==
    {Number(Bits(2500000), 0),
     Number(RoundToDouble(Decimal(<<1, 7, 0, 0, 0, 0, 0, 0, 0, 0, 0, 0, 2,
                                    0, 0, 0, 0, 0, 0>>)), 0)}

\* What the server can answer on each endpoint.
Payloads(endpoint) ==
    CASE endpoint = "/update/submit_ingress_message" ->
             {JsonOk(id) : id \in CallIds} \cup {JsonErr(RejectResponse)}
      [] endpoint = "/read/ingress_status" ->
             {Null, JsonOk("AQ=="), JsonErr(RejectResponse), JsonObject}
      [] endpoint = "/read/query" ->
             {JsonOk("AQ=="), JsonOk("RElETA=="), JsonErr(RejectResponse)}
      [] endpoint = "/read/get_time" ->
             {[nanos_since_epoch |-> nanos] : nanos \in TimesRead}
      [] OTHER -> {JsonObject}

Outcomes(endpoint) ==
    {Resolved(v) : v \in Payloads(endpoint)} \cup {Rejected(e) : e \in TransportErrors}

\* One transport call in the log of an invocation.
Sent(via, method, path, body) ==
    [via |-> via, method |-> method, path |-> path, body |-> body, res |-> Pending]

NoBody == [json |-> "undefined"]
NoResult == [tag |-> "none"]

Idle == [op |-> "none", pc |-> "idle", at |-> "none", i |-> 0,
         encodedReq |-> Null, log |-> <<>>, result |-> NoResult]

assertInstanceNotDeleted_Never == Ret(Undefined)

\* assertInstanceNotDeleted
assertInstanceNotDeleted ==
    IF isInstanceDeleted
    THEN Throw(Error(<<"Instance was deleted">>))
    ELSE Ret(Undefined)

\* An operation can be invoked by a task that awaits nothing; what the other
\* tasks await does not matter.
CanInvoke_Serialized(t) ==
    /\ task[t].pc \in {"idle", "done"}
    /\ \A u \in Tasks : task[u].pc # "wait"

CanInvoke(t) == task[t].pc \in {"idle", "done"}

\* The invocation of t ends with result r.
Finish(inv, r) == [inv EXCEPT !.pc = "done", !.at = "none", !.result = r]

\* The invocation issues a transport call and waits for it.
Issue(inv, at, sent) ==
    [inv EXCEPT !.pc = "wait", !.at = at, !.log = Append(@, sent)]

\* PocketIcClient.post / PocketIcClient.get
post(inv, at, endpoint, body) ==
    Issue(inv, at, Sent("jsonPost", "POST", <<instancePath, endpoint>>, body))

get(inv, at, endpoint) ==
    Issue(inv, at, Sent("jsonGet", "GET", <<instancePath, endpoint>>, NoBody))

\* The endpoint of the transport call an invocation waits for.
Endpoint(inv) == inv.log[Len(inv.log)].path[Len(inv.log[Len(inv.log)].path)]

\* The transport call the invocation waits for settles with outcome o.
Settled(inv, o) == [inv EXCEPT !.log[Len(inv.log)].res = o]

\* An encoded request body whose shape no claim of the call protocol needs.
Encoded(name) == [encoded |-> name]

\* An HTTP response as Http2Client.request resolves it.
Response(status, body) == [status |-> status, text |-> body]

\* What the server can answer to a raw request.
Responses == {Response(200, "01"), Response(200, "ff"), Response(500, "")}

RequestOutcomes ==
    {Resolved(r) : r \in Responses} \cup {Rejected(ServerRequestTimeoutError)}

\* deleteInstance: assert; await request(DELETE instancePath); set the flag.
deleteInstance(t) ==
    /\ CanInvoke(t)
    /\ t \in Callers("deleteInstance")
    /\ LET inv == [Idle EXCEPT !.op = "deleteInstance"]
       IN  task' = [task EXCEPT ![t] =
               IF assertInstanceNotDeleted.tag = "throw"
               THEN Finish(inv, assertInstanceNotDeleted)
               ELSE Issue(inv, "deleteInstance",
                          Sent("request", "DELETE", <<instancePath>>, NoBody))]
    /\ UNCHANGED isInstanceDeleted

deleteInstanceSettled_SetsAlways(t) ==
    /\ task[t].pc = "wait"
    /\ task[t].at = "deleteInstance"
    /\ \E o \in RequestOutcomes :
         LET inv == Settled(task[t], o)
         IN  /\ task' = [task EXCEPT ![t] =
                     IF o.settled = "rejected"
                     THEN Finish(inv, Throw(o.reason))
                     ELSE Finish(inv, Ret(Undefined))]
             /\ isInstanceDeleted' = TRUE

deleteInstanceSettled(t) ==
    /\ task[t].pc = "wait"
    /\ task[t].at = "deleteInstance"
    /\ \E o \in RequestOutcomes :
         LET inv == Settled(task[t], o)
         IN  IF o.settled = "rejected"
             THEN /\ task' = [task EXCEPT ![t] = Finish(inv, Throw(o.reason))]
                  /\ UNCHANGED isInstanceDeleted
             ELSE /\ task' = [task EXCEPT ![t] = Finish(inv, Ret(Undefined))]
                  /\ isInstanceDeleted' = TRUE

\* uploadBlob: assert; await request(POST /blobstore); decode the text body.
uploadBlobWith(t, req) ==
    /\ CanInvoke(t)
    /\ t \in Callers("uploadBlob")
    /\ LET inv == [Idle EXCEPT !.op = "uploadBlob"]
       IN  task' = [task EXCEPT ![t] =
               IF assertInstanceNotDeleted.tag = "throw"
               THEN Finish(inv, assertInstanceNotDeleted)
               ELSE Issue(inv, "uploadBlob",
                          Sent("request", "POST", <<"/blobstore">>,
                               encodeUploadBlobRequest(req)))]
    /\ UNCHANGED isInstanceDeleted

uploadBlob(t) == uploadBlobWith(t, [blob |-> <<1, 255>>])

uploadBlobSettled(t) ==
    /\ task[t].pc = "wait"
    /\ task[t].at = "uploadBlob"
    /\ \E o \in RequestOutcomes :
         LET inv == Settled(task[t], o)
         IN  task' = [task EXCEPT ![t] =
                 IF o.settled = "rejected"
                 THEN Finish(inv, Throw(o.reason))
                 ELSE Finish(inv, Ret(decodeUploadBlobResponse(o.value.text)))]
    /\ UNCHANGED isInstanceDeleted

\* The operations that are: assert; await post or get; decode.
\* op |-> <<transport method, endpoint, request body>>
SingleRequestOps ==
    [getControllers |-> <<"jsonPost", "/read/get_controllers", Encoded("GetControllersRequest")>>,
     tick |-> <<"jsonPost", "/update/tick", JsonObject>>,
     getPubKey |-> <<"jsonPost", "/read/pub_key", Encoded("GetPubKeyRequest")>>,
     getTopology |-> <<"jsonGet", "/_/topology", NoBody>>,
     getTime |-> <<"jsonGet", "/read/get_time", NoBody>>,
     setTime |-> <<"jsonPost", "/update/set_time", encodeSetTimeRequest([millisSinceEpoch |-> Number(Bits(1), 0)])>>,
     setCertifiedTime |-> <<"jsonPost", "/update/set_certified_time", encodeSetTimeRequest([millisSinceEpoch |-> Number(Bits(1), 0)])>>,
     getSubnetId |-> <<"jsonPost", "/read/get_subnet", Encoded("GetSubnetIdRequest")>>,
     getCyclesBalance |-> <<"jsonPost", "/read/get_cycles", Encoded("GetCyclesBalanceRequest")>>,
     addCycles |-> <<"jsonPost", "/update/add_cycles", Encoded("AddCyclesRequest")>>,
     setStableMemory |-> <<"jsonPost", "/update/set_stable_memory", encodeSetStableMemoryRequest([canisterId |-> <<1>>, blobId |-> <<255>>])>>,
     getStableMemory |-> <<"jsonPost", "/read/get_stable_memory", Encoded("GetStableMemoryRequest")>>,
     getPendingHttpsOutcalls |-> <<"jsonGet", "/read/get_canister_http", NoBody>>,
     mockPendingHttpsOutcall |-> <<"jsonPost", "/update/mock_canister_http", Encoded("MockPendingHttpsOutcallRequest")>>,
     queryCall |-> <<"jsonPost", "/read/query", encodeCanisterCallRequest(CallRequest)>>,
     submitCall |-> <<"jsonPost", "/update/submit_ingress_message", encodeSubmitCanisterCallRequest(CallRequest)>>,
     ingressStatus |-> <<"jsonPost", "/read/ingress_status",
                         encodeIngressStatusRequest(
                             [messageId |-> EncodedCanisterCallId(EncodedNone, <<1>>),
                              caller |-> Undefined])>>]

\* The operations that resolve to void.
VoidOps == {"setTime", "setCertifiedTime", "setStableMemory", "mockPendingHttpsOutcall"}

\* The decoding step of a single-request operation.  The decoders of the
\* operations outside the call protocol return the payload they are given.
decodeResponse(op, payload) ==
    CASE op = "queryCall" -> decodeCanisterCallResponse(payload)
      [] op = "submitCall" -> decodeSubmitCanisterCallResponse(payload)
      [] op = "ingressStatus" -> decodeIngressStatusResponse(payload)
      [] op = "getTime" -> Ret(decodeGetTimeResponse(payload))
      [] op \in VoidOps -> Ret(Undefined)
      [] OTHER -> Ret(payload)

callOp_Unchecked(inv, op, body) ==
    IF SingleRequestOps[op][1] = "jsonPost"
    THEN post(inv, op, SingleRequestOps[op][2], body)
    ELSE get(inv, op, SingleRequestOps[op][2])

\* A call of operation op from inside an invocation: assert, then post or get.
callOp(inv, op, body) ==
    IF assertInstanceNotDeleted.tag = "throw"
    THEN Finish(inv, assertInstanceNotDeleted)
    ELSE IF SingleRequestOps[op][1] = "jsonPost"
         THEN post(inv, op, SingleRequestOps[op][2], body)
         ELSE get(inv, op, SingleRequestOps[op][2])

singleRequestOpWith(t, op, body) ==
    /\ CanInvoke(t)
    /\ t \in Callers(op)
    /\ task' = [task EXCEPT ![t] = callOp([Idle EXCEPT !.op = op], op, body)]
    /\ UNCHANGED isInstanceDeleted

singleRequestOp(t, op) == singleRequestOpWith(t, op, SingleRequestOps[op][3])

submitCall_TicksFirst(t) ==
    /\ CanInvoke(t)
    /\ t \in Callers("submitCall")
    /\ task' = [task EXCEPT ![t] =
           callOp([Idle EXCEPT !.op = "submitCall"], "tick", JsonObject)]
    /\ UNCHANGED isInstanceDeleted

getControllers(t) == singleRequestOp(t, "getControllers")
tick(t) == singleRequestOp(t, "tick")
getPubKey(t) == singleRequestOp(t, "getPubKey")
getTopology(t) == singleRequestOp(t, "getTopology")
getTime(t) == singleRequestOp(t, "getTime")
setTimeWith(t, op, req) == singleRequestOpWith(t, op, encodeSetTimeRequest(req))
setTime(t) == singleRequestOp(t, "setTime")
setCertifiedTime(t) == singleRequestOp(t, "setCertifiedTime")
getSubnetId(t) == singleRequestOp(t, "getSubnetId")
getCyclesBalance(t) == singleRequestOp(t, "getCyclesBalance")
addCycles(t) == singleRequestOp(t, "addCycles")
setStableMemoryWith(t, req) ==
    singleRequestOpWith(t, "setStableMemory", encodeSetStableMemoryRequest(req))
setStableMemory(t) == singleRequestOp(t, "setStableMemory")
getStableMemory(t) == singleRequestOp(t, "getStableMemory")
getPendingHttpsOutcalls(t) == singleRequestOp(t, "getPendingHttpsOutcalls")
mockPendingHttpsOutcall(t) == singleRequestOp(t, "mockPendingHttpsOutcall")
queryCallWith(t, req) ==
    singleRequestOpWith(t, "queryCall", encodeCanisterCallRequest(req))
queryCall(t) == singleRequestOp(t, "queryCall")
submitCall(t) == singleRequestOp(t, "submitCall")
ingressStatus(t) == singleRequestOp(t, "ingressStatus")

\* The transport call of a single-request operation settles.
singleRequestSettled(t) ==
    /\ task[t].pc = "wait"
    /\ task[t].op \in DOMAIN SingleRequestOps
    /\ \E o \in Outcomes(Endpoint(task[t])) :
         LET inv == Settled(task[t], o)
         IN  task' = [task EXCEPT ![t] =
                 IF o.settled = "rejected"
                 THEN Finish(inv, Throw(o.reason))
                 ELSE Finish(inv, decodeResponse(inv.op, o.value))]
    /\ UNCHANGED isInstanceDeleted

\* The handles a caller can present to awaitCall: the decoded submit results.
Handles == {decodeSubmitCanisterCallResponse(JsonOk(id)).ret : id \in CallIds}

RoundsExhausted ==
    Error(<<"PocketIC did not complete the update call within ",
            ToString(AWAIT_INGRESS_STATUS_ROUNDS), " rounds">>)

\* awaitCall up to its first await: assert, encode the handle, i = 0, tick().
awaitCallFrom(inv, req) ==
    IF assertInstanceNotDeleted.tag = "throw"
    THEN Finish(inv, assertInstanceNotDeleted)
    ELSE callOp([inv EXCEPT !.i = 0,
                            !.encodedReq =
                                [messageId |-> encodeAwaitCanisterCallRequest(req),
                                 caller |-> Undefined]],
                "tick", JsonObject)

awaitCall(t) ==
    /\ CanInvoke(t)
    /\ t \in Callers("awaitCall")
    /\ \E req \in Handles :
         task' = [task EXCEPT ![t] = awaitCallFrom([Idle EXCEPT !.op = "awaitCall"], req)]
    /\ UNCHANGED isInstanceDeleted

\* `await this.tick()` of a round settles; ingressStatus(encodedReq) follows.
awaitCallTicked(t) ==
    /\ task[t].pc = "wait"
    /\ task[t].op \in {"awaitCall", "updateCall", "deferredCall"}
    /\ task[t].at = "tick"
    /\ \E o \in Outcomes("/update/tick") :
         LET inv == Settled(task[t], o)
         IN  task' = [task EXCEPT ![t] =
                 IF o.settled = "rejected"
                 THEN Finish(inv, Throw(o.reason))
                 ELSE callOp(inv, "ingressStatus",
                             encodeIngressStatusRequest(inv.encodedReq))]
    /\ UNCHANGED isInstanceDeleted

nextRound_NoTick(inv, result) ==
    IF isNotNil(result)
    THEN Finish(inv, Ret(result))
    ELSE IF inv.i + 1 < AWAIT_INGRESS_STATUS_ROUNDS
         THEN callOp([inv EXCEPT !.i = @ + 1], "ingressStatus",
                     encodeIngressStatusRequest(inv.encodedReq))
         ELSE Finish([inv EXCEPT !.i = @ + 1], Throw(RoundsExhausted))

nextRound_OneMore(inv, result) ==
    IF isNotNil(result)
    THEN Finish(inv, Ret(result))
    ELSE IF inv.i + 1 <= AWAIT_INGRESS_STATUS_ROUNDS
         THEN callOp([inv EXCEPT !.i = @ + 1], "tick", JsonObject)
         ELSE Finish([inv EXCEPT !.i = @ + 1], Throw(RoundsExhausted))

\* The end of a round: return a non-nil status, or go to the next round, or
\* give up after AWAIT_INGRESS_STATUS_ROUNDS rounds.
nextRound(inv, result) ==
    IF isNotNil(result)
    THEN Finish(inv, Ret(result))
    ELSE IF inv.i + 1 < AWAIT_INGRESS_STATUS_ROUNDS
         THEN callOp([inv EXCEPT !.i = @ + 1], "tick", JsonObject)
         ELSE Finish([inv EXCEPT !.i = @ + 1], Throw(RoundsExhausted))

\* `await this.ingressStatus(encodedReq)` of a round settles.
awaitCallPolledWith(t, o) ==
    /\ task[t].pc = "wait"
    /\ task[t].op \in {"awaitCall", "updateCall", "deferredCall"}
    /\ task[t].at = "ingressStatus"
    /\ LET inv == Settled(task[t], o)
           status == decodeIngressStatusResponse(o.value)
       IN  task' = [task EXCEPT ![t] =
               IF o.settled = "rejected"
               THEN Finish(inv, Throw(o.reason))
               ELSE IF status.tag = "throw"
                    THEN Finish(inv, status)
                    ELSE nextRound(inv, status.ret)]
    /\ UNCHANGED isInstanceDeleted

awaitCallPolled(t) ==
    \E o \in Outcomes("/read/ingress_status") : awaitCallPolledWith(t, o)

\* updateCall: assert; res = await submitCall(req); return await awaitCall(res).
updateCallWith(t, req) ==
    /\ CanInvoke(t)
    /\ t \in Callers("updateCall")
    /\ LET inv == [Idle EXCEPT !.op = "updateCall"]
       IN  task' = [task EXCEPT ![t] =
               IF assertInstanceNotDeleted.tag = "throw"
               THEN Finish(inv, assertInstanceNotDeleted)
               ELSE callOp(inv, "submitCall", encodeSubmitCanisterCallRequest(req))]
    /\ UNCHANGED isInstanceDeleted

updateCall(t) == updateCallWith(t, CallRequest)

updateCallSubmitted(t) ==
    /\ task[t].pc = "wait"
    /\ task[t].op = "updateCall"
    /\ task[t].at = "submitCall"
    /\ \E o \in Outcomes("/update/submit_ingress_message") :
         LET inv == Settled(task[t], o)
             res == decodeSubmitCanisterCallResponse(o.value)
         IN  task' = [task EXCEPT ![t] =
                 IF o.settled = "rejected"
                 THEN Finish(inv, Throw(o.reason))
                 ELSE IF res.tag = "throw"
                      THEN Finish(inv, res)
                      ELSE awaitCallFrom(inv, res.ret)]
    /\ UNCHANGED isInstanceDeleted

\* The deferred actor: calling a method of the proxy submits the call and
\* gives back a function; invoking that function awaits the submitted call.
\* A task that holds the function and has not invoked it is at "deferred".
DeferredFunction(handle) == [deferred |-> handle]

deferredCallInvoked_Resubmits(t) ==
    /\ task[t].pc = "deferred"
    /\ task[t].op = "deferredCall"
    /\ task' = [task EXCEPT ![t] =
           callOp([task[t] EXCEPT !.result = NoResult], "submitCall",
                  SingleRequestOps["submitCall"][3])]
    /\ UNCHANGED isInstanceDeleted

\* deferredActor.method(...args): res = await client.submitCall(...)
deferredCall(t) ==
    /\ CanInvoke(t)
    /\ t \in Callers("deferredCall")
    /\ task' = [task EXCEPT ![t] =
           callOp([Idle EXCEPT !.op = "deferredCall"], "submitCall",
                  SingleRequestOps["submitCall"][3])]
    /\ UNCHANGED isInstanceDeleted

\* The submission settles: the proxy call returns the zero-argument function.
deferredCallSubmitted(t) ==
    /\ task[t].pc = "wait"
    /\ task[t].op = "deferredCall"
    /\ task[t].at = "submitCall"
    /\ \E o \in Outcomes("/update/submit_ingress_message") :
         LET inv == Settled(task[t], o)
             res == decodeSubmitCanisterCallResponse(o.value)
         IN  task' = [task EXCEPT ![t] =
                 IF o.settled = "rejected"
                 THEN Finish(inv, Throw(o.reason))
                 ELSE IF res.tag = "throw"
                      THEN Finish(inv, res)
                      ELSE [inv EXCEPT !.pc = "deferred", !.at = "none",
                                       !.result = Ret(DeferredFunction(res.ret))]]
    /\ UNCHANGED isInstanceDeleted

\* The returned function is invoked: await client.awaitCall(res).
deferredCallInvoked(t) ==
    /\ task[t].pc = "deferred"
    /\ task[t].op = "deferredCall"
    /\ task' = [task EXCEPT ![t] =
           awaitCallFrom([task[t] EXCEPT !.result = NoResult],
                         task[t].result.ret.deferred)]
    /\ UNCHANGED isInstanceDeleted

\* ------------------------------------------------------------------------
\* Transport client: Http2Client (http2-client.ts and unnamed/part_005)
\* ------------------------------------------------------------------------

\* http2-client.ts:267, unnamed/part_005:221
POLLING_INTERVAL_MS == 10

\* poll's default retryTimes (http2-client.ts:293) and the default of the
\* constructor of part_005 (line 58).
retryTimes == 3

\* The timeout the client is constructed with, in milliseconds.
processingTimeoutMs == 30

\* The number of requests one call is followed for.
MaxRequests == 5

\* enum HttpStatus (http2-client.ts:37-42)
HttpStatus_OK == 200
HttpStatus_ACCEPTED == 202
HttpStatus_CONFLICT == 409
HttpStatus_OTHER == 0 - 1

\* The two revisions of the class.
Revisions == {"http2-client.ts", "part_005"}

\* JSON bodies: a plain payload, an error body, processing metadata; TextBody
\* is a body that is not JSON.
PlainBody == JsonObject
MessageBody(message) == [json |-> "{}", message |-> message]
LabelsBody(state_label, op_id) ==
    [json |-> "{}", state_label |-> state_label, op_id |-> op_id]
TextBody == [json |-> "text"]

StatusText(status) ==
    CASE status = 200 -> "OK"
      [] status = 201 -> "Created"
      [] status = 202 -> "Accepted"
      [] status = 404 -> "Not Found"
      [] status = 409 -> "Conflict"
      [] status = 500 -> "Internal Server Error"
      [] OTHER -> ""

\* A Response of fetch.
FetchResponse(status, body) ==
    [status |-> status, statusText |-> StatusText(status), body |-> body]

\* Errors of the platform.
SyntaxError == Http2ClientError("SyntaxError", <<"Unexpected token">>, NoStatus)
AbortError == Http2ClientError("AbortError", <<"This operation was aborted">>, NoStatus)

\* String(e) of an error.
String(e) == <<e.name, ": ">> \o e.message

\* res.json(): a body can be read once, and has to be JSON.
json(res, bodyUsed) ==
    IF bodyUsed
    THEN Throw(TypeError("Body is unusable"))
    ELSE IF res.body = TextBody THEN Throw(SyntaxError) ELSE Ret(res.body)

\* guard (http2-client.ts)
guard(value) ==
    IF value = Null
    THEN Throw(Error(<<"Value is not an object">>))
    ELSE IF ~({"state_label", "op_id"} \subseteq DOMAIN value)
         THEN Throw(Error(<<"Value does not have state_label or op_id">>))
         ELSE IF "message" \in DOMAIN value
              THEN Throw(Error(<<"Value has message property">>))
              ELSE Ret(value)

\* Http2Client.#simplifyStatus (http2-client.ts)
simplifyStatus(status) ==
    IF status = HttpStatus_ACCEPTED \/ status = 404
    THEN HttpStatus_ACCEPTED
    ELSE IF status \in {HttpStatus_OK, HttpStatus_ACCEPTED,
                        HttpStatus_CONFLICT, HttpStatus_OTHER}
         THEN status
         ELSE HttpStatus_OTHER

\* handleJsonResponse enters its polling loop for the given operation.
LongPoll(result) ==
    [tag |-> "poll", state_label |-> result.state_label, op_id |-> result.op_id]

CouldNotParseResponse(e, res) ==
    ServerResponseError(<<"Could not parse response: ">> \o String(e), res.status)

CouldNotParseError(e, res) ==
    ServerResponseError(<<"Could not parse error: ">> \o String(e), res.status)

\* Http2Client.#handleJsonResponse (http2-client.ts), up to the polling loop
\* of its ACCEPTED case.
handleJsonResponse(res, bodyUsed) ==
    LET status == simplifyStatus(res.status)
        result == json(res, bodyUsed)
    IN  CASE status = HttpStatus_OK ->
                 IF result.tag = "throw"
                 THEN Throw(CouldNotParseResponse(result.err, res))
                 ELSE result
          [] status = HttpStatus_ACCEPTED ->
                 IF result.tag = "throw"
                 THEN Throw(CouldNotParseResponse(result.err, res))
                 ELSE IF guard(result.ret).tag = "throw"
                      THEN Throw(CouldNotParseResponse(guard(result.ret).err, res))
                      ELSE LongPoll(result.ret)
          [] status = HttpStatus_CONFLICT ->
                 IF result.tag = "throw"
                 THEN Throw(CouldNotParseResponse(result.err, res))
                 ELSE IF guard(result.ret).tag = "throw"
                      THEN Throw(CouldNotParseResponse(guard(result.ret).err, res))
                      ELSE Throw(CouldNotParseResponse(
                               ServerBusyError("Server busy", res.status), res))
          [] OTHER ->
                 IF result.tag = "throw"
                 THEN Throw(CouldNotParseError(result.err, res))
                 ELSE IF result.ret = Null
                      THEN Throw(CouldNotParseError(
                               TypeError("Cannot destructure property 'message'"), res))
                      ELSE Throw(CouldNotParseError(
                               ServerResponseError(
                                   IF "message" \in DOMAIN result.ret
                                   THEN <<result.ret.message>>
                                   ELSE <<"undefined">>,
                                   res.status), res))

\* Http2Client.#handleJsonResponse (unnamed/part_005)
handleJsonResponse_005(res, resBody) ==
    IF resBody = Null
    THEN Ret(resBody)
    ELSE IF res.status = 409
    THEN Throw(ServerBusyError("Server busy", res.status))
    ELSE IF "message" \in DOMAIN resBody
    THEN Throw(ServerResponseError(<<resBody.message>>, res.status))
    ELSE IF "state_label" \in DOMAIN resBody
    THEN IF res.status = 202
         THEN Throw(ServerProcessingError("Server started processing", res.status))
         ELSE Throw(UnknownStateError(res.status))
    ELSE IF res.status >= 400
    THEN Throw(ServerResponseError(
             <<ToString(res.status), " ", res.statusText>>, res.status))
    ELSE Ret(resBody)

\* ExponentialBackoff as poll uses it: next() is null once maxElapsedTime has
\* passed or maxIterations intervals were handed out.
nextIsNull_OneMore(count, elapsed, maxIterations, maxElapsedTime) ==
    elapsed >= maxElapsedTime \/ count > maxIterations

nextIsNull(count, elapsed, maxIterations, maxElapsedTime) ==
    elapsed >= maxElapsedTime \/ count >= maxIterations

backoffExhausted(count, elapsed) ==
    nextIsNull(count, elapsed, retryTimes, processingTimeoutMs)


\* The delays next() can return as its count-th interval: a random value
\* within half of intervalMs * 1.5^count around it, here on the grid of
\* POLLING_INTERVAL_MS.
backoffIntervals(count) ==
    {d \in {k * POLLING_INTERVAL_MS : k \in 1..8} :
        /\ 2 * d * Pow(2, count) >= POLLING_INTERVAL_MS * Pow(3, count)
        /\ 2 * d * Pow(2, count) < 3 * POLLING_INTERVAL_MS * Pow(3, count)}

\* ------------------------------------------------------------------------
\* poll (http2-client.ts:291-323) with a callback of its own
\* ------------------------------------------------------------------------

VARIABLES
    http,               \* one Http2Client and the call it is serving
    served,             \* what the server has answered to that call so far
    polling,            \* one call of poll(cb, options)
    decoding,           \* one call of a decoder of the wire codec
    fixture             \* one call of a method of PocketIc and where it stands

\* The variables of the parts that are followed on their own.
standalone == <<polling, decoding, fixture>>

\* The largest retryTimes poll is called with.
MaxRetryTimes == 3

\* The timeoutMs poll is called with: one that elapses during the retries,
\* one that does not.
PollTimeouts == {30, 200}

\* What the callback resolves with, what it throws, and how long it takes.
CbValues == {"v1", "v2"}
CbErrors == {Error(<<"e1">>), Error(<<"e2">>)}
CbDurations == {0, 2 * POLLING_INTERVAL_MS}

NoPoll ==
    [pc |-> "idle", retryTimes |-> 0, timeoutMs |-> 0, now |-> 0, at |-> 0,
     count |-> 0, calls |-> 0, attempt |-> NoResult, result |-> NoResult]

\* The catch of runPoll gives up (http2-client.ts:310-316).
runPollRejects(p) ==
    \/ p.at >= p.timeoutMs
    \/ nextIsNull(p.count, p.now, p.retryTimes, p.timeoutMs)

\* poll(cb, {intervalMs: POLLING_INTERVAL_MS, timeoutMs, retryTimes}): the
\* clock starts, runPoll runs and awaits cb().
pollCalled ==
    /\ polling.pc = "idle"
    /\ \E n \in 0..MaxRetryTimes, t \in PollTimeouts :
         polling' = [NoPoll EXCEPT !.pc = "cb", !.retryTimes = n, !.timeoutMs = t,
                                   !.calls = 1]
    /\ UNCHANGED <<isInstanceDeleted, task, http, served, decoding, fixture>>

\* cb() resolves: resolve(result).
cbResolves ==
    /\ polling.pc = "cb"
    /\ \E v \in CbValues, d \in CbDurations :
         polling' = [polling EXCEPT !.pc = "done", !.now = @ + d,
                                    !.attempt = Ret(v), !.result = Ret(v)]
    /\ UNCHANGED <<isInstanceDeleted, task, http, served, decoding, fixture>>

\* cb() rejects: reject(e), or setTimeout(runPoll, nextInterval).
cbRejects ==
    /\ polling.pc = "cb"
    /\ \E e \in CbErrors, d \in CbDurations :
         LET p == [polling EXCEPT !.now = @ + d, !.attempt = Throw(e)]
         IN  polling' = IF runPollRejects(p)
                        THEN [p EXCEPT !.pc = "done", !.result = Throw(e)]
                        ELSE [p EXCEPT !.pc = "backoff", !.count = @ + 1]
    /\ UNCHANGED <<isInstanceDeleted, task, http, served, decoding, fixture>>

\* The timer of setTimeout(runPoll, nextInterval) fires: runPoll awaits cb().
runPollAgain ==
    /\ polling.pc = "backoff"
    /\ \E d \in backoffIntervals(polling.count) :
         polling' = [polling EXCEPT !.pc = "cb", !.now = @ + d, !.at = polling.now + d,
                                    !.calls = @ + 1]
    /\ UNCHANGED <<isInstanceDeleted, task, http, served, decoding, fixture>>

\* ------------------------------------------------------------------------
\* Transport client: state and steps
\* ------------------------------------------------------------------------

\* What the server can answer to a request.
ServerResponses ==
    {FetchResponse(200, PlainBody), FetchResponse(200, Null),
     FetchResponse(201, PlainBody),
     FetchResponse(202, LabelsBody("a", "1")), FetchResponse(202, LabelsBody("b", "2")),
     FetchResponse(404, LabelsBody("a", "1")), FetchResponse(404, TextBody),
     FetchResponse(409, LabelsBody("a", "1")),
     FetchResponse(409, MessageBody("Server busy")),
     FetchResponse(409, Null), FetchResponse(500, Null),
     FetchResponse(500, MessageBody("Service Unavailable")),
     FetchResponse(500, PlainBody)}

\* The time a response can take when it arrives before the timer fires: it
\* arrives at once, or late.
Latencies ==
    {d \in 0..(processingTimeoutMs - 1) : d % (2 * POLLING_INTERVAL_MS) = 0}

NoResponse == FetchResponse(0, Undefined)

\* The server's answer says that the operation is being processed.
IsProcessing(res) ==
    res.status \in {202, 404} /\ {"state_label", "op_id"} \subseteq DOMAIN res.body

\* The server's answer is a success with a plain payload.
IsSuccess(res) == res.status \in 200..299 /\ res.body = PlainBody

\* The answers of the server to one call, summed up: "nothing" yet; a
\* "success" as the only answer; only "processing" answers, all for the
\* operation of the first one; such answers and then a "terminal" success; or
\* any "other" sequence.
Serve(h, res) ==
    CASE served = "nothing" /\ IsSuccess(res) -> "success"
      [] served = "nothing" /\ IsProcessing(res) -> "processing"
      [] served = "processing" /\ IsProcessing(res) /\ res.body = h.first.body ->
             "processing"
      [] served = "processing" /\ IsSuccess(res) -> "terminal"
      [] OTHER -> "other"
NoLabels == LabelsBody("", "")

\* `new Http2Client(baseUrl, processingTimeoutMs)` of the given revision,
\* serving no call.
Http2Client(rev) ==
    [rev |-> rev, call |-> "none", pc |-> "idle", level |-> "outer", now |-> 0,
     outer |-> [start |-> 0, at |-> 0, count |-> 0],
     inner |-> [start |-> 0, at |-> 0, count |-> 0],
     labels |-> NoLabels, frames |-> <<>>, log |-> <<>>,
     first |-> NoResponse, last |-> NoResponse, race |-> "none",
     timer |-> "none", aborted |-> FALSE,
     result |-> NoResult]

\* The promise of the call settles.
Done(h, r) == [h EXCEPT !.pc = "done", !.result = r]

\* Http2Client.request up to its race: the request goes out with the signal
\* of a new requestAbortController, the timer is set.
Send(h, method, path) ==
    [h EXCEPT !.pc = "fetch", !.timer = "set", !.aborted = FALSE,
              !.log = Append(@, [method |-> method, path |-> path, at |-> h.now])]

\* The request each kind of call makes.
RequestOf(call) ==
    CASE call = "jsonGet" -> [method |-> "GET", path |-> <<instancePath, "/read/topology">>]
      [] call = "jsonPost" -> [method |-> "POST", path |-> <<instancePath, "/update/tick">>]
      [] OTHER -> [method |-> "DELETE", path |-> <<instancePath>>]

\* `/read_graph/${state_label}/${op_id}`
readGraph(labels) == <<"/read_graph/", labels.state_label, "/", labels.op_id>>

\* poll.runPoll up to the request of its callback: the outer poll repeats the
\* request of the call, the poll inside jsonPost reads the operation's state.
runPoll(h, level) ==
    IF level = "outer"
    THEN Send([h EXCEPT !.level = "outer", !.outer.at = h.now],
              RequestOf(h.call).method, RequestOf(h.call).path)
    ELSE Send([h EXCEPT !.level = "inner", !.inner.at = h.now],
              "GET", readGraph(h.labels))

pollRejects_CountOnly(p, now) == p.count >= retryTimes

\* The catch of runPoll gives up: the attempt began after timeoutMs, or
\* backoff.next() is null.
pollRejects(p, now) ==
    \/ p.at - p.start >= processingTimeoutMs
    \/ backoffExhausted(p.count, now - p.start)

\* poll, from the failure e of its callback on: reject, or setTimeout(runPoll).
\* A rejection of the poll inside jsonPost is the failure of the callback of
\* the outer poll.
poll(h, e) ==
    IF h.level = "inner" /\ ~pollRejects(h.inner, h.now)
    THEN [h EXCEPT !.pc = "backoff", !.inner.count = @ + 1]
    ELSE IF ~pollRejects(h.outer, h.now)
         THEN [h EXCEPT !.pc = "backoff", !.level = "outer", !.outer.count = @ + 1]
         ELSE Done(h, Throw(e))

\* The catch blocks of the ACCEPTED case an error passes on its way out of
\* the nested calls of handleJsonResponse (http2-client.ts:142-144).
RECURSIVE wrapFrames(_, _)
wrapFrames(frames, e) ==
    IF frames = <<>>
    THEN e
    ELSE wrapFrames(SubSeq(frames, 1, Len(frames) - 1),
                    CouldNotParseResponse(e, frames[Len(frames)]))

\* handleJsonResponse (http2-client.ts) ends with outcome r, in a callback of
\* poll: it sleeps before its next poll, returns, or throws.
handled(h, res, r) ==
    CASE r.tag = "poll" ->
             [h EXCEPT !.pc = "sleep",
                       !.frames = Append(@, [status |-> res.status,
                                             state_label |-> r.state_label,
                                             op_id |-> r.op_id])]
      [] r.tag = "return" -> Done([h EXCEPT !.frames = <<>>], r)
      [] OTHER -> poll([h EXCEPT !.frames = <<>>], wrapFrames(h.frames, r.err))

\* The polling loop of handleJsonResponse (http2-client.ts:124-141) gets
\* stateRes.
stateResponded(h, stateRes) ==
    IF stateRes.status = 404
    THEN [h EXCEPT !.pc = "sleep"]
    ELSE handled(h, stateRes, handleJsonResponse(stateRes, FALSE))

\* The callback of jsonGet gets res.
jsonGetResponded(h, res) ==
    IF h.rev = "http2-client.ts"
    THEN handled(h, res, handleJsonResponse(res, FALSE))
    ELSE LET resBody == json(res, FALSE)
             r == handleJsonResponse_005(res, resBody.ret)
         IN  IF resBody.tag = "throw"
             THEN poll(h, resBody.err)
             ELSE IF r.tag = "throw" THEN poll(h, r.err) ELSE Done(h, r)

jsonPostResponded_StatusFirst(h, res) ==
    IF res.status >= 400
    THEN poll(h, ServerResponseError(<<res.statusText>>, res.status))
    ELSE Done(h, json(res, FALSE))

\* The callback of jsonPost gets res.
jsonPostResponded(h, res) ==
    LET resBody == json(res, FALSE)
        r == IF h.rev = "http2-client.ts"
             THEN handleJsonResponse(res, TRUE)
             ELSE handleJsonResponse_005(res, resBody.ret)
    IN  IF resBody.tag = "throw"
        THEN poll(h, resBody.err)
        ELSE IF isNil(resBody.ret)
        THEN Done(h, resBody)
        ELSE IF r.tag # "throw"
        THEN handled(h, res, r)
        ELSE IF /\ r.err.name = "ServerProcessingError"
                /\ "state_label" \in DOMAIN resBody.ret
        THEN runPoll([h EXCEPT !.labels = resBody.ret,
                               !.inner = [start |-> h.now, at |-> h.now, count |-> 0]],
                     "inner")
        ELSE poll(h, r.err)

\* The callback of the poll inside jsonPost (unnamed/part_005:193-201) gets
\* stateRes.
jsonPostStateResponded(h, stateRes) ==
    LET stateBody == json(stateRes, FALSE)
        r == handleJsonResponse_005(stateRes, stateBody.ret)
    IN  IF stateBody.tag = "throw"
        THEN poll(h, stateBody.err)
        ELSE IF r.tag = "throw" THEN poll(h, r.err) ELSE Done(h, r)

\* The awaited request resolved with res.
responded_Interpreted(h, res) ==
    CASE h.call = "request" /\ res.status >= 400 ->
             Done(h, Throw(ServerResponseError(<<res.statusText>>, res.status)))
      [] h.call = "request" -> Done(h, Ret(res))
      [] h.frames # <<>> -> stateResponded(h, res)
      [] h.level = "inner" -> jsonPostStateResponded(h, res)
      [] h.call = "jsonGet" -> jsonGetResponded(h, res)
      [] OTHER -> jsonPostResponded(h, res)

responded(h, res) ==
    CASE h.call = "request" -> Done(h, Ret(res))
      [] h.frames # <<>> -> stateResponded(h, res)
      [] h.level = "inner" -> jsonPostStateResponded(h, res)
      [] h.call = "jsonGet" -> jsonGetResponded(h, res)
      [] OTHER -> jsonPostResponded(h, res)

\* The awaited request rejected with e.
failed(h, e) ==
    IF h.call = "request"
    THEN Done(h, Throw(e))
    ELSE poll([h EXCEPT !.frames = <<>>], wrapFrames(h.frames, e))

\* RequestOptions.method, as the session client uses it with request.
RequestMethods == {"GET", "POST", "DELETE"}

\* Http2Client.request
request ==
    /\ http.pc = "idle"
    /\ \E method \in RequestMethods :
         http' = Send([http EXCEPT !.call = "request"],
                      method, RequestOf("request").path)
    /\ UNCHANGED <<standalone, isInstanceDeleted, task, served>>

\* Http2Client.jsonGet
jsonGet ==
    /\ http.pc = "idle"
    /\ http' = runPoll([http EXCEPT !.call = "jsonGet"], "outer")
    /\ UNCHANGED <<standalone, isInstanceDeleted, task, served>>

\* Http2Client.jsonPost
jsonPost ==
    /\ http.pc = "idle"
    /\ http' = runPoll([http EXCEPT !.call = "jsonPost"], "outer")
    /\ UNCHANGED <<standalone, isInstanceDeleted, task, served>>

\* timeoutAbortController.abort() in makeRequest: the listener clears the
\* timer.
clearTimeout(h) == [h EXCEPT !.timer = "cleared"]

\* fetch resolves before the timer fires: makeRequest aborts the timer and
\* the race resolves with the response.
fetchResolves ==
    /\ http.pc = "fetch"
    /\ \E res \in ServerResponses, d \in Latencies :
         /\ http' = responded([clearTimeout(http)
                                   EXCEPT !.now = @ + d, !.race = "fetch",
                                        !.last = res,
                                        !.first = IF @ = NoResponse THEN res ELSE @],
                           res)
         /\ served' = Serve(http, res)
    /\ UNCHANGED <<standalone, isInstanceDeleted, task>>

\* fetch rejects before the timer fires: the network call failed.  makeRequest
\* throws at its await, before timeoutAbortController.abort(): the timer stays
\* set.
fetchRejects ==
    /\ http.pc = "fetch"
    /\ \E d \in Latencies :
         http' = failed([http EXCEPT !.now = @ + d, !.race = "failed"],
                        TypeError("fetch failed"))
    /\ served' = "other"
    /\ UNCHANGED <<standalone, isInstanceDeleted, task>>

\* The timer fires first (http2-client.ts:59-62): its callback aborts the
\* request, which makes fetch reject with an AbortError, and only then rejects
\* its own promise with the timeout error.  Both sides of the race reject; the
\* one that reaches Promise.race first is decided by how many microtasks the
\* runtime's fetch takes to deliver its rejection.
timeoutFires ==
    /\ http.pc = "fetch"
    /\ \E e \in {AbortError, ServerRequestTimeoutError} :
         http' = failed([http EXCEPT !.now = @ + processingTimeoutMs,
                                     !.race = "timer", !.timer = "fired",
                                     !.aborted = TRUE], e)
    /\ served' = "other"
    /\ UNCHANGED <<standalone, isInstanceDeleted, task>>

\* A timer that was not cleared fires after the call has settled: its callback
\* aborts the request's signal and rejects a promise nobody awaits.
timeoutFiresLate ==
    /\ http.pc = "done"
    /\ http.timer = "set"
    /\ http' = [http EXCEPT !.now = http.log[Len(http.log)].at + processingTimeoutMs,
                            !.timer = "fired", !.aborted = TRUE]
    /\ UNCHANGED <<standalone, isInstanceDeleted, task, served>>

\* The sleep of the polling loop of handleJsonResponse ends
\* (http2-client.ts:125-132).
pollingIntervalElapsed ==
    /\ http.pc = "sleep"
    /\ Len(http.log) < MaxRequests
    /\ http' = Send([http EXCEPT !.now = @ + POLLING_INTERVAL_MS],
                    "GET", readGraph(http.frames[Len(http.frames)]))
    /\ UNCHANGED <<standalone, isInstanceDeleted, task, served>>

\* setTimeout(runPoll, nextInterval) of poll fires.
backoffElapsed ==
    /\ http.pc = "backoff"
    /\ Len(http.log) < MaxRequests
    /\ \E d \in backoffIntervals(http[http.level].count) :
         http' = runPoll([http EXCEPT !.now = @ + d], http.level)
    /\ UNCHANGED <<standalone, isInstanceDeleted, task, served>>

NextHttp ==
    \/ request
    \/ jsonGet
    \/ jsonPost
    \/ fetchResolves
    \/ fetchRejects
    \/ timeoutFires
    \/ timeoutFiresLate
    \/ pollingIntervalElapsed
    \/ backoffElapsed

\* ------------------------------------------------------------------------
\* Decoders of the wire codec (pocket-ic-client-types.ts), called on their own
\* ------------------------------------------------------------------------

\* EncodedSubnetKind and an unknown kind.
SubnetKinds == {"Application", "Bitcoin", "Fiduciary", "II", "NNS", "SNS", "System"}
SubnetKindInputs == SubnetKinds \cup {"Verified"}

decodeSubnetKind(kind) ==
    IF kind \in SubnetKinds
    THEN Ret(kind)
    ELSE Throw(Error(<<"Unknown subnet kind: ", kind>>))

\* EncodedCanisterHttpMethod and an unknown method.
CanisterHttpMethods == {"GET", "POST", "HEAD"}
CanisterHttpMethodInputs == CanisterHttpMethods \cup {"PUT"}

decodeCanisterHttpMethod(method) ==
    IF method \in CanisterHttpMethods
    THEN Ret(method)
    ELSE Throw(Error(<<"Unknown canister HTTP method: ", method>>))

\* EncodedEffectivePrincipal and an object with another key.
EffectivePrincipalInputs ==
    {EncodedNone, EncodedSubnetId("/w=="), EncodedCanisterId("AQ=="),
     [enc |-> "Unknown", Unknown |-> "AQ=="]}

\* EncodedCanisterCallRejectResponse values.
RejectResponses ==
    {[reject_code |-> c, reject_message |-> m, error_code |-> e, certified |-> b] :
        c \in {4, 5}, m \in {"trapped", TrapMessage}, e \in {301, 524},
        b \in BOOLEAN}

\* {Ok: string} | {Err: reject} | {} and, for the ingress status, null.
CallResults ==
    {JsonOk(base64Encode(b)) : b \in Blobs}
        \cup {JsonErr(r) : r \in RejectResponses} \cup {JsonObject}
SubmitResults ==
    {JsonOk(id) : id \in CallIds}
        \cup {JsonErr(r) : r \in RejectResponses} \cup {JsonObject}
IngressStatuses == CallResults \cup {Null}

\* The largest time decoded, in milliseconds.
MaxMillis == 9

\* nanos_since_epoch values: on, next to and halfway between milliseconds.
NanosSinceEpoch ==
    {Number(Bits(ms * 1000000 + r), 0) :
        ms \in 0..MaxMillis, r \in {0, 1, 499999, 500000, 999999}}

\* Times of the year 2023: 1_700_000_000_00k ms, and the numbers that
\* JSON.parse makes of 1_700_000_000_00k_000_000 ns.
PresentMillis ==
    {Number(Decimal(<<1, 7, 0, 0, 0, 0, 0, 0, 0, 0, 0, 0, k>>), 0) : k \in 0..9}
PresentNanos ==
    {Number(RoundToDouble(Decimal(<<1, 7, 0, 0, 0, 0, 0, 0, 0, 0, 0, 0, k,
                                    0, 0, 0, 0, 0, 0>>)), 0) : k \in 0..9}

\* millisSinceEpoch values that are integers.
MillisSinceEpoch == {Number(Bits(ms), 0) : ms \in 0..MaxMillis} \cup PresentMillis

\* Subnet configs and the requests to create an instance: no request, or a
\* request with any of its fields.
SubnetConfigs ==
    {defaultApplicationSubnet,
     ("state" :> [type |-> "fromPath", path |-> "/nns/state"])
         @@ ("enableDeterministicTimeSlicing" :> FALSE)
         @@ ("enableBenchmarkingInstructionLimits" :> TRUE)}

\* A field that is absent or has one of the values.
Optional(name, values) == {<<>>} \cup {name :> v : v \in values}

SubnetLists == {<<>>, <<defaultApplicationSubnet>>}

CreateInstanceRequests ==
    {Undefined} \cup
    {nns @@ sns @@ ii @@ fiduciary @@ bitcoin @@ system @@ application
         @@ verifiedApplication @@ nonmainnetFeatures :
        nns \in Optional("nns", SubnetConfigs),
        sns \in Optional("sns", {defaultApplicationSubnet}),
        ii \in Optional("ii", {defaultApplicationSubnet}),
        fiduciary \in Optional("fiduciary", {defaultApplicationSubnet}),
        bitcoin \in Optional("bitcoin", {defaultApplicationSubnet}),
        system \in Optional("system", SubnetLists),
        application \in Optional("application", SubnetLists),
        verifiedApplication \in Optional("verifiedApplication", SubnetLists),
        nonmainnetFeatures \in Optional("nonmainnetFeatures", {TRUE})}

NoDecoding == [fn |-> "none", input |-> Null, output |-> NoResult]

Decoding(fn, input) == [fn |-> fn, input |-> input, output |-> NoResult]

Called(fn) == decoding.fn = fn /\ decoding.output = NoResult

Returned(output) ==
    /\ decoding' = [decoding EXCEPT !.output = output]
    /\ UNCHANGED <<isInstanceDeleted, task, http, served, polling, fixture>>

decodeSubnetKindCalled ==
    Called("decodeSubnetKind") /\ Returned(decodeSubnetKind(decoding.input))

decodeCanisterHttpMethodCalled ==
    /\ Called("decodeCanisterHttpMethod")
    /\ Returned(decodeCanisterHttpMethod(decoding.input))

decodeEffectivePrincipalCalled ==
    /\ Called("decodeEffectivePrincipal")
    /\ Returned(decodeEffectivePrincipal(decoding.input))

decodeResultResponseCalled ==
    /\ Called("decodeResultResponse")
    /\ Returned(decodeResultResponse(decoding.input))

decodeCanisterCallResponseCalled ==
    /\ Called("decodeCanisterCallResponse")
    /\ Returned(decodeCanisterCallResponse(decoding.input))

decodeSubmitCanisterCallResponseCalled ==
    /\ Called("decodeSubmitCanisterCallResponse")
    /\ Returned(decodeSubmitCanisterCallResponse(decoding.input))

decodeIngressStatusResponseCalled ==
    /\ Called("decodeIngressStatusResponse")
    /\ Returned(decodeIngressStatusResponse(decoding.input))

decodeGetTimeResponseCalled ==
    /\ Called("decodeGetTimeResponse")
    /\ Returned(Ret(decodeGetTimeResponse(decoding.input)))

encodeSetTimeRequestCalled ==
    /\ Called("encodeSetTimeRequest")
    /\ Returned(Ret(encodeSetTimeRequest(decoding.input)))

encodeCreateInstanceRequestCalled ==
    /\ Called("encodeCreateInstanceRequest")
    /\ Returned(encodeCreateInstanceRequest(decoding.input))

\* ------------------------------------------------------------------------
\* Fixture: PocketIc (jest.config.ts), the methods that compose client calls
\* ------------------------------------------------------------------------

\* A method of PocketIc runs on the task "caller": it invokes an operation of
\* the client, awaits it and goes on.  calls lists the operations it invoked,
\* each with its request and, once awaited, its result.
\* tracked is the key set of lastLogIdx; it outlives the method.
NoFixture ==
    [op |-> "none", pc |-> "idle", args |-> Null, local |-> Null,
     calls |-> <<>>, result |-> NoResult, tracked |-> {}]

Invoked(op, args) ==
    [NoFixture EXCEPT !.op = op, !.args = args, !.tracked = fixture.tracked]

\* `await this.client.op(req)`: the method waits at stage pc.
Await(f, pc, op, req) ==
    [f EXCEPT !.pc = pc,
              !.calls = Append(@, [op |-> op, req |-> req, result |-> NoResult])]

\* The awaited operation has settled with result r.
Awaited(f, r) == [f EXCEPT !.calls[Len(f.calls)].result = r]

\* The method returns or throws.
Return(f, r) == [f EXCEPT !.pc = "done", !.result = r]

CanCall == fixture.pc \in {"idle", "done"}

\* The method is at stage pc and the operation it awaits has settled.
Resumes(op, pc) ==
    /\ fixture.op = op
    /\ fixture.pc = pc
    /\ task["caller"].pc = "done"

Blob == <<1, 255>>
CanisterIds == {<<1>>, <<255>>}

\* PocketIc.setStableMemory: { blobId } = await client.uploadBlob({ blob });
\* await client.setStableMemory({ canisterId, blobId }).
PocketIc_setStableMemory ==
    /\ CanCall
    /\ \E canisterId \in CanisterIds :
         LET req == [blob |-> Blob]
         IN  /\ uploadBlobWith("caller", req)
             /\ fixture' = Await(Invoked("setStableMemory",
                                         [canisterId |-> canisterId,
                                          stableMemory |-> Blob]),
                                 "uploadBlob", "uploadBlob", req)

PocketIc_setStableMemory_uploaded ==
    /\ Resumes("setStableMemory", "uploadBlob")
    /\ LET r == task["caller"].result
           f == Awaited(fixture, r)
       IN  IF r.tag = "throw"
           THEN /\ fixture' = Return(f, r)
                /\ UNCHANGED <<isInstanceDeleted, task>>
           ELSE LET req == [canisterId |-> fixture.args.canisterId,
                            blobId |-> r.ret.blobId]
                IN  /\ setStableMemoryWith("caller", req)
                    /\ fixture' = Await(f, "setStableMemory",
                                        "setStableMemory", req)

\* The last awaited operation settles and its outcome is the method's.
Returns(op, pc) ==
    /\ Resumes(op, pc)
    /\ fixture' = Return(Awaited(fixture, task["caller"].result),
                         task["caller"].result)
    /\ UNCHANGED <<isInstanceDeleted, task>>

PocketIc_setStableMemory_returns == Returns("setStableMemory", "setStableMemory")

\* PocketIc.advanceTime / advanceCertifiedTime: currentTime = await getTime();
\* newTime = currentTime + duration; await setTime(newTime), respectively
\* setCertifiedTime(newTime).  getTime and setTime of PocketIc are the
\* client's getTime and setTime on millisSinceEpoch.
Durations == {Number(Bits(1), 0), Number(Bits(1000), 0), Number(<<1>>, 0 - 1)}

advanceTimeBy(op) ==
    /\ CanCall
    /\ \E duration \in Durations :
         /\ getTime("caller")
         /\ fixture' = Await(Invoked(op, [duration |-> duration]),
                             "getTime", "getTime", Undefined)

timeRead(op, setOp) ==
    /\ Resumes(op, "getTime")
    /\ LET r == task["caller"].result
           f == Awaited(fixture, r)
       IN  IF r.tag = "throw"
           THEN /\ fixture' = Return(f, r)
                /\ UNCHANGED <<isInstanceDeleted, task>>
           ELSE LET currentTime == r.ret.millisSinceEpoch
                    newTime == Plus(currentTime, fixture.args.duration)
                    req == [millisSinceEpoch |-> newTime]
                IN  /\ setTimeWith("caller", setOp, req)
                    /\ fixture' = Await(f, "setTime", setOp, req)

PocketIc_advanceTime == advanceTimeBy("advanceTime")
PocketIc_advanceTime_read_Certified == timeRead("advanceTime", "setCertifiedTime")
PocketIc_advanceTime_read == timeRead("advanceTime", "setTime")
PocketIc_advanceTime_returns == Returns("advanceTime", "setTime")

PocketIc_advanceCertifiedTime == advanceTimeBy("advanceCertifiedTime")
PocketIc_advanceCertifiedTime_read ==
    timeRead("advanceCertifiedTime", "setCertifiedTime")
PocketIc_advanceCertifiedTime_returns ==
    Returns("advanceCertifiedTime", "setTime")

\* The management canister's Candid messages.  An encoded message is the
\* magic number followed by the bytes of its fields; the type table is left
\* out.
DIDL == <<68, 73, 68, 76>>

MANAGEMENT_CANISTER_ID == <<>>
Anonymous == <<4>>

\* optional(value): [] for nil, [value] otherwise; an absent field has no bytes.
optional(value) == IF isNil(value) THEN <<>> ELSE value

encodeCreateCanisterRequest(req) == DIDL \o req.specified_id

decodeCreateCanisterResponse(bytes) ==
    IF Len(bytes) > Len(DIDL) /\ SubSeq(bytes, 1, Len(DIDL)) = DIDL
    THEN Ret([canister_id |-> SubSeq(bytes, Len(DIDL) + 1, Len(bytes))])
    ELSE Throw(Error(<<"Cannot decode the create canister response">>))

encodeInstallCodeRequest_Fixed(req) ==
    DIDL \o <<1>> \o req.wasm_module \o req.arg

encodeInstallCodeRequest(req) ==
    DIDL \o req.canister_id \o req.wasm_module \o req.arg

\* effectivePrincipal: targetSubnetId ? { subnetId: targetSubnetId } : undefined
targetSubnet(targetSubnetId) ==
    IF isNil(targetSubnetId) THEN Null ELSE SubnetIdOf(targetSubnetId)

\* The proxy createActor builds for a canister.
Actor(canisterId) == [actorOf |-> canisterId]

\* PocketIc.initLogTracking
initLogTracking(f, canisterId) ==
    [f EXCEPT !.tracked = @ \cup {canisterId}]

Wasm == <<0>>
\* No target canister id and no target subnet are given.
SetupCanisterOptions ==
    [sender |-> Anonymous, arg |-> <<>>, wasm |-> Wasm,
     targetCanisterId |-> Null, targetSubnetId |-> Null]

\* PocketIc.createCanister, as setupCanister calls it: the update call
\* provisional_create_canister_with_cycles to the management canister.
createCanisterRequest(options) ==
    [sender |-> options.sender,
     canisterId |-> MANAGEMENT_CANISTER_ID,
     method |-> "provisional_create_canister_with_cycles",
     payload |-> encodeCreateCanisterRequest(
                     [specified_id |-> optional(options.targetCanisterId)]),
     effectivePrincipal |-> targetSubnet(options.targetSubnetId)]

\* PocketIc.installCode: the update call install_code.
installCodeRequest(options, canisterId) ==
    [sender |-> options.sender,
     canisterId |-> MANAGEMENT_CANISTER_ID,
     method |-> "install_code",
     payload |-> encodeInstallCodeRequest(
                     [arg |-> options.arg, canister_id |-> canisterId,
                      wasm_module |-> options.wasm]),
     effectivePrincipal |-> targetSubnet(options.targetSubnetId)]

\* PocketIc.setupCanister: canisterId = await createCanister(...);
\* await installCode({ canisterId, ... }); actor = createActor(...);
\* return { actor, canisterId }.
PocketIc_setupCanister ==
    /\ CanCall
    /\ LET options == SetupCanisterOptions
           req == createCanisterRequest(options)
       IN  /\ updateCallWith("caller", req)
           /\ fixture' = Await(Invoked("setupCanister", options),
                               "createCanister", "updateCall", req)

PocketIc_setupCanister_created ==
    /\ Resumes("setupCanister", "createCanister")
    /\ LET r == task["caller"].result
           f == Awaited(fixture, r)
           res == IF r.tag = "throw" THEN r
                  ELSE decodeCreateCanisterResponse(r.ret.body)
       IN  IF res.tag = "throw"
           THEN /\ fixture' = Return(f, res)
                /\ UNCHANGED <<isInstanceDeleted, task>>
           ELSE LET canisterId == res.ret.canister_id
                    req == installCodeRequest(fixture.args, canisterId)
                IN  /\ updateCallWith("caller", req)
                    /\ fixture' =
                           Await([initLogTracking(f, canisterId)
                                     EXCEPT !.local = canisterId],
                                 "installCode", "updateCall", req)

PocketIc_setupCanister_installed ==
    /\ Resumes("setupCanister", "installCode")
    /\ LET r == task["caller"].result
           f == Awaited(fixture, r)
       IN  fixture' = IF r.tag = "throw" THEN Return(f, r)
                      ELSE Return(initLogTracking(f, fixture.local),
                                  Ret([actor |-> Actor(fixture.local),
                                       canisterId |-> fixture.local]))
    /\ UNCHANGED <<isInstanceDeleted, task>>

\* The fetch_canister_logs messages of the management canister: the request
\* names the canister, the response lists its log records.
encodeFetchCanisterLogsRequest(req) == DIDL \o req.canister_id

decodeFetchCanisterLogsResponse(bytes) ==
    IF Len(bytes) >= Len(DIDL) /\ SubSeq(bytes, 1, Len(DIDL)) = DIDL
    THEN Ret(SubSeq(bytes, Len(DIDL) + 1, Len(bytes)))
    ELSE Throw(Error(<<"Cannot decode the fetch canister logs response">>))

\* The query flushCanisterLogs sends for one canister.
fetchCanisterLogsRequest(canisterId) ==
    [sender |-> Anonymous,
     canisterId |-> MANAGEMENT_CANISTER_ID,
     method |-> "fetch_canister_logs",
     payload |-> encodeFetchCanisterLogsRequest([canister_id |-> canisterId]),
     effectivePrincipal |-> Null]

\* PocketIc.tick(times = 1): for (i = 0; i < times; i++) { await
\* client.tick(); await flushCanisterLogs(); }.  local.i is the loop counter
\* and local.rest the canisters flushCanisterLogs has still to visit.
MaxTimes == 2

\* The argument lists tick is called with: none, or one number.
TickArguments == {<<>>} \cup {<<times>> : times \in (0 - 1)..MaxTimes}

\* The head of the loop of tick: the next tick, or the end of the method.
tickLoop(f) ==
    IF f.local.i < f.args.times
    THEN /\ tick("caller")
         /\ fixture' = Await(f, "tick", "tick", JsonObject)
    ELSE /\ fixture' = Return(f, Ret(Undefined))
         /\ UNCHANGED <<isInstanceDeleted, task>>

\* The head of the loop of flushCanisterLogs over the keys of lastLogIdx:
\* the query for the next canister, or the end of the round of tick.  The
\* model keeps the key set and not the order of insertion, so the canisters
\* are visited in any order.  What is printed of the records is left out.
flushCanisterLogs(f) ==
    IF f.local.rest = {}
    THEN tickLoop([f EXCEPT !.local.i = @ + 1])
    ELSE \E canisterId \in f.local.rest :
             LET req == fetchCanisterLogsRequest(canisterId)
             IN  /\ queryCallWith("caller", req)
                 /\ fixture' = Await([initLogTracking(f, canisterId)
                                         EXCEPT !.local.rest = @ \ {canisterId}],
                                     "fetchLogs", "queryCall", req)

PocketIc_tick ==
    /\ CanCall
    /\ \E given \in TickArguments :
         tickLoop([Invoked("tick", [times |-> IF given = <<>> THEN 1
                                              ELSE given[1]])
                      EXCEPT !.local = [i |-> 0, rest |-> {}]])

\* client.tick() has settled: its error ends the method, otherwise the logs
\* of every tracked canister are fetched.
PocketIc_tick_ticked ==
    /\ Resumes("tick", "tick")
    /\ LET r == task["caller"].result
           f == Awaited(fixture, r)
       IN  IF r.tag = "throw"
           THEN /\ fixture' = Return(f, r)
                /\ UNCHANGED <<isInstanceDeleted, task>>
           ELSE flushCanisterLogs([f EXCEPT !.local.rest = fixture.tracked])

\* A query of flushCanisterLogs has settled and its error is the method's.
PocketIc_tick_fetched_Rethrows ==
    /\ Resumes("tick", "fetchLogs")
    /\ LET r == task["caller"].result
           f == Awaited(fixture, r)
           logs == IF r.tag = "throw" THEN r
                   ELSE decodeFetchCanisterLogsResponse(r.ret.body)
       IN  IF logs.tag = "throw"
           THEN /\ fixture' = Return(f, logs)
                /\ UNCHANGED <<isInstanceDeleted, task>>
           ELSE flushCanisterLogs(f)

\* A query of flushCanisterLogs has settled: whatever it or the decoding of
\* its response throws is caught and ends flushCanisterLogs, not tick.
PocketIc_tick_fetched ==
    /\ Resumes("tick", "fetchLogs")
    /\ LET r == task["caller"].result
           f == Awaited(fixture, r)
           logs == IF r.tag = "throw" THEN r
                   ELSE decodeFetchCanisterLogsResponse(r.ret.body)
       IN  IF logs.tag = "throw"
           THEN tickLoop([f EXCEPT !.local = [i |-> @.i + 1, rest |-> {}]])
           ELSE flushCanisterLogs(f)

\* What the server answers to an ingress status read of a management call.
ManagementReplies ==
    {Null, JsonErr(RejectResponse), JsonOk(base64Encode(DIDL))}
        \cup {JsonOk(base64Encode(DIDL \o id)) : id \in CanisterIds}

\* The server has the status of a management call after at most this many
\* reads that found none.
MaxNullPolls == 2

\* A step of the client operation the method awaits, or of another task.
clientStep ==
    /\ UNCHANGED fixture
    /\ \/ uploadBlobSettled("caller")
       \/ singleRequestSettled("caller")
       \/ updateCallSubmitted("caller")
       \/ awaitCallTicked("caller")
       \/ \E v \in ManagementReplies :
              /\ isNil(v) => task["caller"].i < MaxNullPolls
              /\ awaitCallPolledWith("caller", Resolved(v))
       \/ \E e \in TransportErrors :
              awaitCallPolledWith("caller", Rejected(e))
       \/ deleteInstance("other")
       \/ deleteInstanceSettled("other")

vars == <<isInstanceDeleted, task, http, served, polling, decoding, fixture>>

Init ==
    /\ isInstanceDeleted = FALSE
    /\ task = [t \in Tasks |-> Idle]
    /\ http = Http2Client("http2-client.ts")
    /\ served = "nothing"
    /\ polling = NoPoll
    /\ decoding = NoDecoding
    /\ fixture = NoFixture

Next ==
    /\ UNCHANGED <<http, served, standalone>>
    /\ \E t \in Tasks :
        \/ deleteInstance(t)
        \/ deleteInstanceSettled(t)
        \/ uploadBlob(t)
        \/ uploadBlobSettled(t)
        \/ getControllers(t)
        \/ tick(t)
        \/ getPubKey(t)
        \/ getTopology(t)
        \/ getTime(t)
        \/ setTime(t)
        \/ setCertifiedTime(t)
        \/ getSubnetId(t)
        \/ getCyclesBalance(t)
        \/ addCycles(t)
        \/ setStableMemory(t)
        \/ getStableMemory(t)
        \/ getPendingHttpsOutcalls(t)
        \/ mockPendingHttpsOutcall(t)
        \/ queryCall(t)
        \/ submitCall(t)
        \/ ingressStatus(t)
        \/ singleRequestSettled(t)
        \/ awaitCall(t)
        \/ awaitCallTicked(t)
        \/ awaitCallPolled(t)
        \/ updateCall(t)
        \/ updateCallSubmitted(t)
        \/ deferredCall(t)
        \/ deferredCallSubmitted(t)
        \/ deferredCallInvoked(t)

Spec == Init /\ [][Next]_vars

\* The transport client on its own: a client of either revision serves one
\* call, and the server and the clock are the environment.
InitHttp ==
    /\ isInstanceDeleted = FALSE
    /\ task = [t \in Tasks |-> Idle]
    /\ http \in {Http2Client(rev) : rev \in Revisions}
    /\ served = "nothing"
    /\ polling = NoPoll
    /\ decoding = NoDecoding
    /\ fixture = NoFixture

SpecHttp == InitHttp /\ [][NextHttp]_vars

\* poll on its own: one call with a callback that resolves or rejects.
NextPoll ==
    \/ pollCalled
    \/ cbResolves
    \/ cbRejects
    \/ runPollAgain

SpecPoll == Init /\ [][NextPoll]_vars

\* The decoders on their own: one call of one decoder on one input.
InitCodec ==
    /\ isInstanceDeleted = FALSE
    /\ task = [t \in Tasks |-> Idle]
    /\ http = Http2Client("http2-client.ts")
    /\ served = "nothing"
    /\ polling = NoPoll
    /\ fixture = NoFixture
    /\ \/ \E kind \in SubnetKindInputs :
              decoding = Decoding("decodeSubnetKind", kind)
       \/ \E method \in CanisterHttpMethodInputs :
              decoding = Decoding("decodeCanisterHttpMethod", method)
       \/ \E effectivePrincipal \in EffectivePrincipalInputs :
              decoding = Decoding("decodeEffectivePrincipal", effectivePrincipal)
       \/ \E res \in CallResults :
              \/ decoding = Decoding("decodeResultResponse", res)
              \/ decoding = Decoding("decodeCanisterCallResponse", res)
       \/ \E res \in SubmitResults :
              decoding = Decoding("decodeSubmitCanisterCallResponse", res)
       \/ \E res \in IngressStatuses :
              decoding = Decoding("decodeIngressStatusResponse", res)
       \/ \E millis \in MillisSinceEpoch :
              decoding = Decoding("encodeSetTimeRequest",
                                  [millisSinceEpoch |-> millis])
       \/ \E nanos \in NanosSinceEpoch \cup PresentNanos :
              decoding = Decoding("decodeGetTimeResponse",
                                  [nanos_since_epoch |-> nanos])
       \/ \E req \in CreateInstanceRequests :
              decoding = Decoding("encodeCreateInstanceRequest", req)

NextCodec ==
    \/ decodeSubnetKindCalled
    \/ decodeCanisterHttpMethodCalled
    \/ decodeEffectivePrincipalCalled
    \/ decodeResultResponseCalled
    \/ decodeCanisterCallResponseCalled
    \/ decodeSubmitCanisterCallResponseCalled
    \/ decodeIngressStatusResponseCalled
    \/ decodeGetTimeResponseCalled
    \/ encodeSetTimeRequestCalled
    \/ encodeCreateInstanceRequestCalled

SpecCodec == InitCodec /\ [][NextCodec]_vars

\* The fixture on its own: methods of PocketIc called one after the other on
\* one client, while another task may delete the instance.
NextPic ==
    /\ UNCHANGED <<http, served, polling, decoding>>
    /\ \/ PocketIc_setStableMemory
       \/ PocketIc_setStableMemory_uploaded
       \/ PocketIc_setStableMemory_returns
       \/ PocketIc_setupCanister
       \/ PocketIc_setupCanister_created
       \/ PocketIc_setupCanister_installed
       \/ PocketIc_advanceTime
       \/ PocketIc_advanceTime_read
       \/ PocketIc_advanceTime_returns
       \/ PocketIc_advanceCertifiedTime
       \/ PocketIc_advanceCertifiedTime_read
       \/ PocketIc_advanceCertifiedTime_returns
       \/ PocketIc_tick
       \/ PocketIc_tick_ticked
       \/ PocketIc_tick_fetched
       \/ clientStep

SpecPic == Init /\ [][NextPic]_vars

\* ------------------------------------------------------------------------
\* Properties of the session client
\* ------------------------------------------------------------------------

InstanceDeleted == Throw(Error(<<"Instance was deleted">>))

\* C1: once deleteInstance has completed (the flag is set), every invocation
\* of an operation ends at once with the local "Instance was deleted" error
\* and without a transport call.
C1_DeletedFailsLocally ==
    [][\A t \in Tasks :
          (isInstanceDeleted /\ CanInvoke(t) /\ task'[t] # task[t]) =>
              /\ task'[t].pc = "done"
              /\ task'[t].result = InstanceDeleted
              /\ task'[t].log = <<>>]_vars

C1_Witness ==
    /\ isInstanceDeleted
    /\ task["caller"].pc = "done"
    /\ task["caller"].op = "awaitCall"
    /\ task["caller"].result = InstanceDeleted
    /\ task["caller"].log = <<>>
    /\ task["other"].op = "getTopology"
    /\ task["other"].result = InstanceDeleted

\* The transport calls of awaitCall inside an invocation: its log, without
\* the submit of updateCall.
AwaitLog(inv) ==
    IF inv.op = "updateCall" THEN SubSeq(inv.log, 2, Len(inv.log)) ELSE inv.log

IsTick(sent) ==
    /\ sent.via = "jsonPost"
    /\ sent.path = <<instancePath, "/update/tick">>

IsPoll(sent, id) ==
    /\ sent.via = "jsonPost"
    /\ sent.path = <<instancePath, "/read/ingress_status">>
    /\ sent.body.raw_message_id = id

\* The log is tick, poll, tick, poll, ... and only its last poll can have
\* seen anything but a null status.
Alternates(log, id) ==
    \A j \in 1..Len(log) :
        /\ j % 2 = 1 => IsTick(log[j])
        /\ j % 2 = 0 => IsPoll(log[j], id)
        /\ j < Len(log) => log[j].res.settled = "resolved"
        /\ (j % 2 = 0 /\ j < Len(log)) => log[j].res = Resolved(Null)

\* C2: awaitCall runs in rounds of one tick followed by one ingress-status
\* poll with the handle; it goes on exactly while the status is null, and
\* when the k-th poll (k in 1..100) is the first non-null one it returns that
\* status decoded, after k ticks and k polls, and makes no further call.
C2_AwaitCallRounds ==
    \A t \in Tasks :
        task[t].op = "awaitCall" =>
            LET log == task[t].log
                k == Len(log) \div 2
            IN  /\ task[t].encodedReq # Null =>
                       Alternates(log, task[t].encodedReq.messageId)
                /\ (task[t].pc = "done" /\ task[t].result.tag = "return") =>
                       /\ Len(log) = 2 * k
                       /\ k \in 1..AWAIT_INGRESS_STATUS_ROUNDS
                       /\ log[2 * k].res.settled = "resolved"
                       /\ log[2 * k].res.value.json = "Ok"
                       /\ task[t].result.ret.body = base64Decode(log[2 * k].res.value.Ok)
                /\ (Len(log) > 0 /\ log[Len(log)].res = Resolved(JsonOk("AQ==")))
                       => (task[t].pc = "done" /\ task[t].result = Ret([body |-> <<1>>]))

C2_Witness ==
    /\ task["caller"].op = "awaitCall"
    /\ task["caller"].pc = "done"
    /\ task["caller"].result = Ret([body |-> <<1>>])
    /\ Len(task["caller"].log) = 6

\* C3: when every poll sees a null status awaitCall ends after exactly
\* AWAIT_INGRESS_STATUS_ROUNDS rounds with the rounds-exhausted error, which is
\* not a call rejection; there is no further round.
C3_AwaitCallBounded ==
    \A t \in Tasks :
        task[t].op = "awaitCall" =>
            LET log == task[t].log
            IN  /\ Len(log) <= 2 * AWAIT_INGRESS_STATUS_ROUNDS
                /\ task[t].i <= AWAIT_INGRESS_STATUS_ROUNDS
                /\ (/\ Len(log) = 2 * AWAIT_INGRESS_STATUS_ROUNDS
                    /\ log[Len(log)].res = Resolved(Null))
                       => (task[t].pc = "done" /\ task[t].result = Throw(RoundsExhausted))
                /\ task[t].result = Throw(RoundsExhausted) =>
                       /\ Len(log) = 2 * AWAIT_INGRESS_STATUS_ROUNDS
                       /\ \A j \in 1..AWAIT_INGRESS_STATUS_ROUNDS :
                              log[2 * j].res = Resolved(Null)
                       /\ task[t].result # decodeResultResponse(JsonErr(RejectResponse))

C3_Witness ==
    /\ task["caller"].op = "awaitCall"
    /\ task["caller"].pc = "done"
    /\ task["caller"].result = Throw(RoundsExhausted)

IsSubmit(sent) ==
    /\ sent.via = "jsonPost"
    /\ sent.method = "POST"
    /\ sent.path = <<instancePath, "/update/submit_ingress_message">>
    /\ sent.body = encodeCanisterCallRequest(CallRequest)

\* C4: updateCall first posts submit_ingress_message; ticks and ingress-status
\* polls come only after the submit has resolved with Ok, they carry the very
\* id the submit returned; a failed submit (transport failure or Err) ends
\* updateCall with that failure after the one call.
C4_UpdateCallSubmitThenAwait ==
    \A t \in Tasks :
        (task[t].op = "updateCall" /\ Len(task[t].log) > 0) =>
            LET log == task[t].log
                submit == log[1].res
            IN  /\ IsSubmit(log[1])
                /\ Len(log) > 1 =>
                       /\ submit.settled = "resolved"
                       /\ submit.value.json = "Ok"
                       /\ Alternates(AwaitLog(task[t]), submit.value.Ok)
                /\ submit.settled = "rejected" =>
                       /\ task[t].pc = "done"
                       /\ Len(log) = 1
                       /\ task[t].result = Throw(submit.reason)
                /\ (submit.settled = "resolved" /\ submit.value.json = "Err") =>
                       /\ task[t].pc = "done"
                       /\ Len(log) = 1
                       /\ task[t].result.tag = "throw"
                       /\ task[t].result.err.message[1] = "Canister call failed: "

C4_Witness ==
    /\ task["caller"].op = "updateCall"
    /\ task["caller"].pc = "done"
    /\ task["caller"].result = Ret([body |-> <<1>>])
    /\ Len(task["caller"].log) = 5
    /\ task["caller"].log[1].res.value.Ok.effective_principal = EncodedSubnetId("/w==")

\* ------------------------------------------------------------------------
\* Properties of the transport client
\* ------------------------------------------------------------------------

IsJsonCall == http.call \in {"jsonGet", "jsonPost"}

\* The call has settled on the response http.last.
SettledOnResponse == IsJsonCall /\ http.pc = "done" /\ http.race = "fetch"

\* C5: when jsonGet or jsonPost settles on a 409 response, it fails with
\* ServerBusyError, message 'Server busy', carrying the 409 response.
C5_BusySurfaced ==
    SettledOnResponse /\ http.last.status = 409
        => http.result = Throw(ServerBusyError("Server busy", 409))

\* Every request after the first one of the call is a GET of
\* /read_graph/{state_label}/{op_id} of the first response.
PollsReadGraph ==
    \A i \in 2..Len(http.log) :
        /\ http.log[i].method = "GET"
        /\ http.log[i].path = readGraph(http.first.body)

\* C6: when the first response of jsonGet or jsonPost is a processing response
\* and the server goes on with any number of processing responses and then a
\* success, every request after the first is a GET of the read_graph path
\* built from the first response, the call does not give up on a processing
\* response before the timeout, and it returns the payload of the success.
C6_LongPollConverges ==
    IsJsonCall =>
        /\ served \in {"processing", "terminal"} => PollsReadGraph
        /\ served = "processing" /\ http.pc = "done"
               => http.now >= processingTimeoutMs
        /\ served = "terminal"
               => http.pc = "done" /\ http.result = Ret(http.last.body)

\* C7: while the server has answered nothing but processing responses,
\* jsonGet and jsonPost send no request once processingTimeoutMs has passed
\* since the call began.
C7_NoPollAfterTimeout ==
    IsJsonCall /\ served = "processing"
        => \A i \in 1..Len(http.log) : http.log[i].at < processingTimeoutMs

IsFailure(res) == res.status >= 400 /\ res.status # 409 /\ ~IsProcessing(res)

\* C9: when jsonGet or jsonPost settles on such a failure response, it fails
\* with ServerResponseError whose message is 'Server error: ' and the message
\* of the body, or '<status> <statusText>' when the body has none.
C9_FailureMessage ==
    SettledOnResponse /\ IsFailure(http.last)
        => http.result =
               Throw(ServerResponseError(
                   IF "message" \in DOMAIN http.last.body
                   THEN <<http.last.body.message>>
                   ELSE <<ToString(http.last.status), " ", http.last.statusText>>,
                   http.last.status))

\* C10: when the first request of jsonGet or jsonPost is answered by a 2xx
\* response with a plain payload, the call returns that payload and has sent
\* one request.
C10_PlainSuccess ==
    IsJsonCall /\ served = "success"
        => /\ http.pc = "done"
           /\ http.result = Ret(http.first.body)
           /\ Len(http.log) = 1

\* ------------------------------------------------------------------------
\* Properties of poll
\* ------------------------------------------------------------------------

\* C11: poll never calls cb more than retryTimes + 1 times; it settles with
\* the outcome of its last attempt: it resolves as soon as an attempt
\* succeeds, and when it rejects it has made retryTimes + 1 attempts unless
\* timeoutMs has passed; once settled it calls cb no more.
C11_PollAttempts ==
    [][/\ polling'.calls <= polling'.retryTimes + 1
       /\ polling'.pc = "done" => polling'.result = polling'.attempt
       /\ polling'.attempt.tag = "return" => polling'.pc = "done"
       /\ polling'.pc = "done" /\ polling'.result.tag = "throw"
              /\ polling'.now < polling'.timeoutMs
              => polling'.calls = polling'.retryTimes + 1
       /\ polling.pc = "done" => polling'.calls = polling.calls]_vars

\* poll rejected after all its attempts, before timeoutMs had passed.
C11_Witness ==
    /\ polling.pc = "done"
    /\ polling.result.tag = "throw"
    /\ polling.retryTimes = MaxRetryTimes
    /\ polling.calls = MaxRetryTimes + 1
    /\ polling.now < polling.timeoutMs

\* ------------------------------------------------------------------------
\* Properties of the transport client: retries
\* ------------------------------------------------------------------------

\* C12: once jsonGet or jsonPost has received a 409 response, the call is
\* over: it sends no further request.
C12_BusyIsTerminal ==
    IsJsonCall /\ http.race = "fetch" /\ http.last.status = 409
        => http.pc = "done"

\* C13: once the timer of a request of jsonGet or jsonPost has fired, the
\* request having failed with the timeout error, the call is over: it sends
\* no further request.
C13_TimeoutNotRetried ==
    IsJsonCall /\ http.race = "timer" => http.pc = "done"

\* The timer fired on a request that poll had already retried.
C13_Witness ==
    /\ IsJsonCall
    /\ http.race = "timer"
    /\ http.pc = "done"
    /\ Len(http.log) > 1
    /\ http.outer.count > 0

\* The last request of the call reads the state of an operation.
ReadsGraph ==
    /\ http.log # <<>>
    /\ http.log[Len(http.log)].path[1] = "/read_graph/"

\* C14: when the timer fires on a request to the read_graph endpoint, jsonGet
\* and jsonPost reject with ServerRequestTimeoutError.
C14_TimeoutSurfaces ==
    IsJsonCall /\ http.pc = "done" /\ http.race = "timer" /\ ReadsGraph
        => http.result = Throw(ServerRequestTimeoutError)

\* ------------------------------------------------------------------------
\* Properties of the session client: submitting and awaiting
\* ------------------------------------------------------------------------

\* C15: submitCall makes one transport call, the POST of the call envelope to
\* submit_ingress_message, and no tick or ingress-status poll; what it returns
\* is the decoded handle of that one response.
C15_SubmitCallOnly ==
    \A t \in Tasks :
        task[t].op = "submitCall" =>
            LET log == task[t].log
            IN  /\ Len(log) <= 1
                /\ \A j \in 1..Len(log) : IsSubmit(log[j])
                /\ (task[t].pc = "done" /\ task[t].result.tag = "return") =>
                       /\ Len(log) = 1
                       /\ log[1].res.settled = "resolved"
                       /\ task[t].result =
                              decodeSubmitCanisterCallResponse(log[1].res.value)
                       /\ task[t].result.ret \in Handles

C15_Witness ==
    /\ task["caller"].op = "submitCall"
    /\ task["caller"].pc = "done"
    /\ task["caller"].result.tag = "return"
    /\ task["caller"].result.ret.effectivePrincipal = SubnetIdOf(<<255>>)

\* C16: a deferred proxy call submits at once and defers the await.  While
\* the returned function is held and not yet invoked the call has made the one
\* submit and no tick or ingress-status poll; the function holds the handle
\* decoded from that submit; once invoked it runs the await rounds with that
\* handle and returns the status the last poll saw, decoded.
C16_DeferredCall ==
    \A t \in Tasks :
        (task[t].op = "deferredCall" /\ Len(task[t].log) > 0) =>
            LET log == task[t].log
                submit == log[1].res
                k == (Len(log) - 1) \div 2
            IN  /\ IsSubmit(log[1])
                /\ task[t].pc = "deferred" =>
                       /\ Len(log) = 1
                       /\ submit.settled = "resolved"
                       /\ task[t].result =
                              Ret(DeferredFunction(
                                  decodeSubmitCanisterCallResponse(submit.value).ret))
                /\ Len(log) > 1 =>
                       /\ submit.settled = "resolved"
                       /\ submit.value.json = "Ok"
                       /\ Alternates(SubSeq(log, 2, Len(log)), submit.value.Ok)
                /\ (task[t].pc = "done" /\ task[t].result.tag = "return") =>
                       /\ k \in 1..AWAIT_INGRESS_STATUS_ROUNDS
                       /\ Len(log) = 1 + 2 * k
                       /\ log[Len(log)].res.settled = "resolved"
                       /\ log[Len(log)].res.value.json = "Ok"
                       /\ task[t].result.ret.body =
                              base64Decode(log[Len(log)].res.value.Ok)

\* The function is held while another task has listed or mocked an outcall.
C16_Witness ==
    /\ task["caller"].op = "deferredCall"
    /\ task["caller"].pc = "deferred"
    /\ task["other"].op = "mockPendingHttpsOutcall"
    /\ task["other"].pc = "done"
    /\ task["other"].result.tag = "return"

IsPollPath(sent) == sent.path = <<instancePath, "/read/ingress_status">>

\* C17: the handle goes unchanged from the submit to the polls.  Encoding the
\* decoded submit result gives back the submitted id, for the effective
\* principals 'None', SubnetId and CanisterId alike, and every ingress-status
\* poll of updateCall, of a deferred call and of awaitCall carries that id as
\* raw_message_id.
C17_HandleUnchanged ==
    /\ \A id \in CallIds :
           encodeAwaitCanisterCallRequest(
               decodeSubmitCanisterCallResponse(JsonOk(id)).ret) = id
    /\ \A t \in Tasks :
           LET log == task[t].log
           IN  /\ task[t].op \in {"updateCall", "deferredCall"} =>
                      \A j \in 2..Len(log) :
                          IsPollPath(log[j]) =>
                              log[j].body.raw_message_id = log[1].res.value.Ok
               /\ task[t].op = "awaitCall" =>
                      \A j \in 1..Len(log) :
                          IsPollPath(log[j]) =>
                              /\ log[j].body.raw_message_id \in CallIds
                              /\ log[j].body.raw_message_id =
                                     log[2].body.raw_message_id

C17_Witness ==
    /\ task["caller"].op = "updateCall"
    /\ Len(task["caller"].log) >= 5
    /\ task["caller"].log[1].res.value.Ok.effective_principal =
           EncodedCanisterId("AQ==")
    /\ IsPollPath(task["caller"].log[5])

\* ------------------------------------------------------------------------
\* Properties of the decoders
\* ------------------------------------------------------------------------

ErrDecoders ==
    {"decodeCanisterCallResponse", "decodeSubmitCanisterCallResponse",
     "decodeIngressStatusResponse"}

\* Names of the errors of the transport client.
TransportErrorNames ==
    {"ServerRequestTimeoutError", "ServerBusyError", "ServerProcessingError",
     "ServerResponseError", "UnknownStateError"}

\* A typed rejection: not the generic Error, not a transport error, and with
\* the four fields of the rejection it was raised for.
IsCallRejection(e, reject) ==
    /\ e.name \notin {"Error"} \cup TransportErrorNames
    /\ {"reject_code", "reject_message", "error_code", "certified"} \subseteq DOMAIN e
    /\ e.reject_code = reject.reject_code
    /\ e.reject_message = reject.reject_message
    /\ e.error_code = reject.error_code
    /\ e.certified = reject.certified

DecodedErr ==
    /\ decoding.fn \in ErrDecoders
    /\ decoding.output # NoResult
    /\ decoding.input.json = "Err"

\* C18: decoding an Err result with decodeCanisterCallResponse,
\* decodeSubmitCanisterCallResponse or decodeIngressStatusResponse returns no
\* value: it throws a typed call-rejection error that carries the reject code,
\* reject message, error code and certified flag of the Err and is not one of
\* the transport errors.
C18_ErrRaisesRejection ==
    DecodedErr =>
        /\ decoding.output.tag = "throw"
        /\ IsCallRejection(decoding.output.err, decoding.input.Err)

\* The call of a decoder is on a value with a tag the decoder does not know.
UnknownTag ==
    \/ decoding.fn = "decodeSubnetKind" /\ decoding.input \notin SubnetKinds
    \/ /\ decoding.fn = "decodeCanisterHttpMethod"
       /\ decoding.input \notin CanisterHttpMethods
    \/ /\ decoding.fn = "decodeEffectivePrincipal"
       /\ decoding.input.enc \notin {"None", "SubnetId", "CanisterId"}
    \/ /\ decoding.fn \in {"decodeResultResponse", "decodeIngressStatusResponse"}
       /\ decoding.input.json = "{}"

\* C19: every decoder of a tagged union throws on a tag it does not know: the
\* subnet kind, the canister HTTP method, the effective principal, the Ok/Err
\* result and the ingress status; none returns a value for it.
C19_UnknownTagFails ==
    (UnknownTag /\ decoding.output # NoResult) => decoding.output.tag = "throw"

\* C20: decodeGetTimeResponse returns floor(nanos_since_epoch / 1_000_000)
\* as millisSinceEpoch, an integer.
C20_TimeFloors ==
    (decoding.fn = "decodeGetTimeResponse" /\ decoding.output # NoResult) =>
        /\ isInteger(decoding.output.ret.millisSinceEpoch)
        /\ decoding.output.ret.millisSinceEpoch =
               FloorOver(decoding.input.nanos_since_epoch, 1000000)

\* The number is a whole count of milliseconds, in nanoseconds.
isWholeMillis(nanos) ==
    isInteger(nanos) /\ DivSmall(IntegerBits(nanos), 1000000).remainder = 0

\* C21: the time round trip.  Encoding the decoded time gives back a
\* nanosecond count that is a multiple of 1_000_000, and decoding the encoded
\* time gives back an integer millisecond value.
C21_TimeRoundTrip ==
    /\ (/\ decoding.fn = "decodeGetTimeResponse"
        /\ decoding.output # NoResult
        /\ isWholeMillis(decoding.input.nanos_since_epoch)) =>
           encodeSetTimeRequest(decoding.output.ret) = decoding.input
    /\ (decoding.fn = "encodeSetTimeRequest" /\ decoding.output # NoResult) =>
           decodeGetTimeResponse(decoding.output.ret) = decoding.input

\* C22: fetching the topology again on an instance that was not deleted, after
\* a fetch that returned, returns the same result and issues no transport call.
C22_TopologyCached ==
    [][\A t \in Tasks :
          (/\ task[t].op = "getTopology"
           /\ task[t].pc = "done"
           /\ task[t].result.tag = "return"
           /\ ~isInstanceDeleted
           /\ task'[t] # task[t]
           /\ task'[t].op = "getTopology") =>
              /\ task'[t].log = <<>>
              /\ task'[t].pc = "done"
              /\ task'[t].result = task[t].result]_vars

\* ------------------------------------------------------------------------
\* The fixture
\* ------------------------------------------------------------------------

\* The step in which PocketIc.setStableMemory posts set_stable_memory.
PostsSetStableMemory ==
    /\ fixture.op = "setStableMemory"
    /\ task["caller"].at # "setStableMemory"
    /\ task'["caller"].at = "setStableMemory"

\* C23: set_stable_memory is posted only after the upload to /blobstore has
\* ended and succeeded, its body refers to the blob id the upload answered and
\* holds no blob.
C23_SetStableMemoryUploadsFirst ==
    [][PostsSetStableMemory =>
          LET upload == task["caller"].log[1]
              body == task'["caller"].log[1].body
          IN  /\ task["caller"].op = "uploadBlob"
              /\ task["caller"].pc = "done"
              /\ upload.path = <<"/blobstore">>
              /\ upload.body = fixture.args.stableMemory
              /\ upload.res.settled = "resolved"
              /\ upload.res.value.status = 200
              /\ DOMAIN body = {"canister_id", "blob_id"}
              /\ body.blob_id = base64Encode(hexDecode(upload.res.value.text))]_vars

\* The step in which PocketIc.setupCanister submits install_code.
SubmitsInstallCode ==
    /\ fixture'.op = "setupCanister"
    /\ task["caller"].pc = "done"
    /\ task'["caller"].pc = "wait"
    /\ task'["caller"].log[1].body.method = "install_code"

\* The canister id in the status the server answered last to an update call.
CreatedId(inv) ==
    LET reply == inv.log[Len(inv.log)].res.value
    IN  IF inv.result.tag = "return" /\ reply.json = "Ok"
        THEN decodeCreateCanisterResponse(base64Decode(reply.Ok))
        ELSE Throw(inv.result)

\* C24: setupCanister submits install_code only once the update call
\* provisional_create_canister_with_cycles has returned a canister id, the
\* install_code payload names that id, and the fixture it returns has that id
\* and an actor for it; a creation that fails is the only call it makes.
C24_SetupCanisterComposes ==
    /\ [][SubmitsInstallCode =>
            LET created == task["caller"]
                id == CreatedId(created)
                payload == base64Decode(task'["caller"].log[1].body.payload)
            IN  /\ created.op = "updateCall"
                /\ created.log[1].body.method =
                       "provisional_create_canister_with_cycles"
                /\ id.tag = "return"
                /\ SubSeq(payload, 1, Len(DIDL) + Len(id.ret.canister_id)) =
                       DIDL \o id.ret.canister_id
                /\ fixture'.local = id.ret.canister_id
                /\ Len(fixture'.calls) = 2]_vars
    /\ [](fixture.op = "setupCanister" =>
            /\ (Len(fixture.calls) > 0 /\ fixture.calls[1].result.tag = "throw") =>
                   /\ Len(fixture.calls) = 1
                   /\ fixture.result = fixture.calls[1].result
            /\ (fixture.pc = "done" /\ fixture.result.tag = "return") =>
                   /\ Len(fixture.calls) = 2
                   /\ fixture.calls[2].req.method = "install_code"
                   /\ fixture.calls[2].result.tag = "return"
                   /\ fixture.result.ret =
                          [actor |-> Actor(fixture.local),
                           canisterId |-> fixture.local])

C24_Witness ==
    /\ fixture.op = "setupCanister"
    /\ fixture.pc = "done"
    /\ fixture.result.tag = "return"
    /\ fixture.result.ret.canisterId = <<255>>

\* A step in which the caller's task sends a request while a method that
\* advances the time runs.
AdvanceSends ==
    /\ fixture'.op \in {"advanceTime", "advanceCertifiedTime"}
    /\ task'["caller"] # task["caller"]
    /\ task'["caller"].pc = "wait"
    /\ task["caller"].pc # "wait"

\* What advanceTime posts to, and what advanceCertifiedTime posts to.
SetTimePath(op) ==
    IF op = "advanceTime" THEN "/update/set_time"
    ELSE "/update/set_certified_time"

\* C25: advanceTime(d) sends two requests and no other: a read of get_time
\* when it is called, and once that has returned a post to set_time whose value
\* is the time read plus d; advanceCertifiedTime(d) does the same with
\* set_certified_time.  Neither sends a tick.
C25_AdvanceTimeReadsThenSets ==
    /\ [][AdvanceSends =>
            LET sent == task'["caller"].log
                read == task["caller"]
            IN  /\ Len(sent) = 1
                /\ \/ /\ CanCall
                      /\ sent[1].method = "GET"
                      /\ sent[1].path = <<instancePath, "/read/get_time">>
                      /\ Len(fixture'.calls) = 1
                   \/ /\ fixture.op = fixture'.op
                      /\ fixture.pc = "getTime"
                      /\ read.op = "getTime"
                      /\ read.pc = "done"
                      /\ read.result.tag = "return"
                      /\ sent[1].method = "POST"
                      /\ sent[1].path = <<instancePath, SetTimePath(fixture.op)>>
                      /\ sent[1].body =
                             [nanos_since_epoch |->
                                 Times(Plus(Over(read.log[1].res.value.nanos_since_epoch,
                                                 1000000),
                                            fixture.args.duration),
                                       1000000)]
                      /\ Len(fixture'.calls) = 2]_vars
    /\ []((fixture.op \in {"advanceTime", "advanceCertifiedTime"}
              /\ fixture.pc = "done" /\ fixture.result.tag = "return") =>
            /\ Len(fixture.calls) = 2
            /\ Len(task["caller"].log) = 1
            /\ fixture.result.ret = Undefined)

\* advanceTime(0.5) has returned after reading 2.5 ms: it has set 3 ms.
C25_Witness ==
    /\ fixture.op = "advanceTime"
    /\ fixture.pc = "done"
    /\ fixture.result.tag = "return"
    /\ fixture.args.duration = Number(<<1>>, 0 - 1)
    /\ task["caller"].log[1].body = [nanos_since_epoch |-> Number(Bits(3000000), 0)]

\* ------------------------------------------------------------------------
\* The transport client, continued
\* ------------------------------------------------------------------------

\* The race of the last request is over.
RaceOver == http.log # <<>> /\ http.pc # "fetch"

\* C26: once the race of a request is over its loser has been cancelled: if
\* the timer fired first the request's signal is aborted, and if fetch settled
\* first the timer is cleared, so that it never fires and the signal is never
\* aborted afterwards.
C26_LoserCancelled ==
    RaceOver =>
        /\ http.race = "timer" => http.aborted
        /\ http.race # "timer" => http.timer = "cleared" /\ ~http.aborted

\* C27: the wait before each further request of one call, a read of the
\* operation's state or a retry alike, is POLLING_INTERVAL_MS whatever the
\* number of requests already made.
C27_FixedInterval ==
    [][(http.pc \in {"sleep", "backoff"} /\ http'.pc = "fetch") =>
          http'.now - http.now = POLLING_INTERVAL_MS]_vars

\* C28: when the response to request arrives before the timer fires, request
\* resolves with that response, status and body as the server sent them,
\* whatever the status and the method, after that one request.
C28_RequestReturnsRaw ==
    (http.call = "request" /\ http.race = "fetch") =>
        /\ http.pc = "done"
        /\ http.result.tag = "return"
        /\ http.result.ret.status = http.last.status
        /\ http.result.ret.body = http.last.body
        /\ Len(http.log) = 1

\* request has resolved with a 500 response to a POST.
C28_Witness ==
    /\ http.call = "request"
    /\ http.pc = "done"
    /\ http.result.tag = "return"
    /\ http.result.ret.status = 500
    /\ http.log[1].method = "POST"

\* ------------------------------------------------------------------------
\* The session client, continued
\* ------------------------------------------------------------------------

\* C29: a task that awaits nothing can invoke an operation whatever the other
\* tasks await, and on an instance that is not deleted the invocation sends
\* its request in the same step: nothing is queued behind a request in flight.
C29_NotSerialized ==
    \A t \in Tasks :
        task[t].pc \in {"idle", "done"} =>
            ENABLED (/\ tick(t)
                     /\ ~isInstanceDeleted =>
                            /\ task'[t].pc = "wait"
                            /\ Len(task'[t].log) = 1)

\* Two requests of one client are in flight: the second was sent while the
\* first was awaited.
C29_Witness ==
    /\ task["caller"].pc = "wait"
    /\ task["caller"].log[Len(task["caller"].log)].res = Pending
    /\ task["other"].pc = "wait"
    /\ task["other"].log[Len(task["other"].log)].res = Pending

\* The rounds of awaitCall that have sent their status read.
Round(inv) == Len(inv.log) \div 2

\* The last status read of awaitCall was answered with an Err.
PolledErr(inv) ==
    /\ inv.op = "awaitCall"
    /\ inv.log # <<>>
    /\ inv.log[Len(inv.log)].path = <<instancePath, "/read/ingress_status">>
    /\ inv.log[Len(inv.log)].res.settled = "resolved"
    /\ inv.log[Len(inv.log)].res.value # Null
    /\ inv.log[Len(inv.log)].res.value.json = "Err"

\* C30: when the status read of round k of awaitCall is answered with an Err,
\* awaitCall has ended in round k with the error made from that rejection, not
\* with the rounds-exhausted error, and that read is its last request.
C30_ErrEndsAwaitCall ==
    \A t \in Tasks :
        PolledErr(task[t]) =>
            LET reject == task[t].log[Len(task[t].log)].res.value.Err
            IN  /\ task[t].pc = "done"
                /\ Len(task[t].log) = 2 * Round(task[t])
                /\ task[t].i = Round(task[t]) - 1
                /\ task[t].result.tag = "throw"
                /\ task[t].result.err.name = "Error"
                /\ task[t].result.err.message[1] = "Canister call failed: "
                /\ task[t].result.err.message[2] = reject.reject_message
                /\ task[t].result.err # RoundsExhausted

\* awaitCall ended on an Err in its second round.
C30_Witness ==
    /\ PolledErr(task["caller"])
    /\ Round(task["caller"]) = 2
    /\ task["caller"].pc = "done"

\* ------------------------------------------------------------------------
\* The fixture, continued
\* ------------------------------------------------------------------------

\* The positions in the calls of a method at which it called op.
CallsOf(f, op) == {k \in 1..Len(f.calls) : f.calls[k].op = op}

\* A step in which the caller's task posts a tick while PocketIc.tick runs.
TickSends ==
    /\ fixture'.op = "tick"
    /\ task'["caller"] # task["caller"]
    /\ task'["caller"].pc = "wait"
    /\ task'["caller"].log[1].path = <<instancePath, "/update/tick">>

\* C31: PocketIc.tick(times) posts its ticks one after another, each after the
\* one before it and the log fetches that follow it have settled; when it
\* returns it has posted exactly `times` of them (one when no argument is
\* given, none when times <= 0); it fails only with the error of a tick,
\* never with that of a log fetch, however a log fetch ends.
C31_TickCount ==
    /\ [][TickSends =>
            /\ task["caller"].pc # "wait"
            /\ fixture'.pc = "tick"
            /\ Cardinality(CallsOf(fixture', "tick")) = fixture'.local.i + 1
            /\ fixture'.local.i < fixture'.args.times
            /\ \A k \in 1..(Len(fixture'.calls) - 1) :
                   fixture'.calls[k].result.tag # "none"]_vars
    /\ []((fixture.op = "tick" /\ fixture.pc = "done") =>
            LET ticks == CallsOf(fixture, "tick")
                last == fixture.calls[Len(fixture.calls)]
            IN  IF fixture.result.tag = "return"
                THEN /\ Cardinality(ticks) =
                            IF fixture.args.times > 0 THEN fixture.args.times
                            ELSE 0
                     /\ \A k \in ticks : fixture.calls[k].result.tag = "return"
                ELSE /\ last.op = "tick"
                     /\ last.result = fixture.result)

\* tick(2) has returned although a log fetch was rejected and another could
\* not be decoded.
C31_Witness ==
    /\ fixture.op = "tick"
    /\ fixture.pc = "done"
    /\ fixture.result.tag = "return"
    /\ fixture.args.times = 2
    /\ \E k \in CallsOf(fixture, "queryCall") :
           fixture.calls[k].result.tag = "throw"
    /\ \E k \in CallsOf(fixture, "queryCall") :
           /\ fixture.calls[k].result.tag = "return"
           /\ fixture.calls[k].result.ret.body = <<1>>

\* ------------------------------------------------------------------------
\* Properties of the decoders, continued
\* ------------------------------------------------------------------------

\* The encoded subnet_config_set has no subnet of any kind.
NoSubnet(set) ==
    /\ \A kind \in {"nns", "sns", "ii", "fiduciary", "bitcoin"} : isNil(set[kind])
    /\ \A kind \in {"system", "application", "verified_application"} :
           Len(set[kind]) = 0

\* C32: encodeCreateInstanceRequest throws TopologyValidationError exactly
\* when the subnet_config_set it has encoded holds no subnet of any kind
\* (nns, sns, ii, fiduciary, bitcoin, system, application, verified
\* application), and returns the encoding whenever it holds one.
C32_TopologyValidation ==
    (decoding.fn = "encodeCreateInstanceRequest" /\ decoding.output # NoResult) =>
        LET set == subnet_config_set(decoding.input)
        IN  /\ decoding.output = Throw(TopologyValidationError) <=> NoSubnet(set)
            /\ ~NoSubnet(set) =>
                   /\ decoding.output.tag = "return"
                   /\ decoding.output.ret.subnet_config_set = set

\* ------------------------------------------------------------------------
\* Properties of the session client: deleting the instance
\* ------------------------------------------------------------------------

\* The step in which the DELETE request of t's deleteInstance settles.
DeleteSettles(t) ==
    /\ task[t].pc = "wait"
    /\ task[t].at = "deleteInstance"
    /\ task'[t].pc = "done"

\* C33: the flag of the client only ever goes from false to true, and it does
\* so only in the step in which the DELETE request of a deleteInstance is
\* answered with an HTTP response; the step in which that request fails
\* (transport error or timeout) leaves the flag as it is, false unless another
\* deleteInstance has completed, and while the flag is false every invocation
\* passes the check and sends its request.
C33_FlagSetOnResponse ==
    [][/\ isInstanceDeleted => isInstanceDeleted'
       /\ isInstanceDeleted' # isInstanceDeleted =>
              \E t \in Tasks :
                  /\ DeleteSettles(t)
                  /\ task'[t].log[1].method = "DELETE"
                  /\ task'[t].log[1].res.settled = "resolved"
                  /\ task'[t].result = Ret(Undefined)
       /\ \A t \in Tasks :
              /\ (DeleteSettles(t) /\ task'[t].log[1].res.settled = "rejected") =>
                     /\ isInstanceDeleted' = isInstanceDeleted
                     /\ task'[t].result = Throw(task'[t].log[1].res.reason)
              /\ (DeleteSettles(t) /\ task'[t].log[1].res.settled = "resolved") =>
                     isInstanceDeleted'
              /\ (~isInstanceDeleted /\ CanInvoke(t) /\ task'[t] # task[t]) =>
                     /\ task'[t].pc = "wait"
                     /\ Len(task'[t].log) = 1]_vars

\* The DELETE of one task timed out, the flag is still false, and an
\* operation of the other task has sent its request.
C33_Witness ==
    /\ ~isInstanceDeleted
    /\ task["other"].op = "deleteInstance"
    /\ task["other"].pc = "done"
    /\ task["other"].result = Throw(ServerRequestTimeoutError)
    /\ task["caller"].op = "getTime"
    /\ task["caller"].pc = "wait"

\* The request an awaiting call waits for is answered so that the call has a
\* further step to take: a tick that resolved, a submit that resolved with a
\* handle, or a status read that found null before the last round.
GoesOn(inv, res) ==
    /\ res.settled = "resolved"
    /\ \/ inv.at = "tick"
       \/ inv.at = "submitCall" /\ res.value.json = "Ok"
       \/ /\ inv.at = "ingressStatus"
          /\ res.value = Null
          /\ inv.i + 1 < AWAIT_INGRESS_STATUS_ROUNDS

\* C34: when the instance has been deleted while an awaitCall or updateCall
\* waits for a request, the step in which that request settles ends the call
\* and sends nothing more; if the call had a tick or a status read still to
\* make it ends with the "Instance was deleted" error, and it ends with the
\* rounds-exhausted error only when the request was the status read of the
\* last round.
C34_DeletedEndsAwaitCall ==
    [][\A t \in Tasks :
          (/\ isInstanceDeleted
           /\ task[t].op \in {"awaitCall", "updateCall"}
           /\ task[t].pc = "wait"
           /\ task'[t] # task[t]) =>
              LET res == task'[t].log[Len(task[t].log)].res
              IN  /\ task'[t].pc = "done"
                  /\ Len(task'[t].log) = Len(task[t].log)
                  /\ GoesOn(task[t], res) => task'[t].result = InstanceDeleted
                  /\ task'[t].result = Throw(RoundsExhausted) =>
                         /\ task[t].at = "ingressStatus"
                         /\ Len(AwaitLog(task[t])) = 2 * AWAIT_INGRESS_STATUS_ROUNDS]_vars

\* An awaitCall whose second tick was answered after the instance had been
\* deleted: it has failed at the status read that follows, after three
\* requests.
C34_Witness ==
    /\ isInstanceDeleted
    /\ task["caller"].op = "awaitCall"
    /\ task["caller"].pc = "done"
    /\ task["caller"].result = InstanceDeleted
    /\ Len(task["caller"].log) = 3
    /\ task["caller"].log[3].res.settled = "resolved"

\* The DELETE request of u's deleteInstance is in flight.
DeletePending(u) ==
    /\ task[u].pc = "wait"
    /\ task[u].at = "deleteInstance"

\* A step in which t sends a request under the path of the instance.
SendsToInstance(t) ==
    /\ task'[t] # task[t]
    /\ task'[t].pc = "wait"
    /\ task'[t].log[Len(task'[t].log)].path[1] = instancePath

\* C35: once the DELETE request of the instance has been sent, in flight or
\* answered, no other operation on the client sends a request under the path
\* of the instance.
C35_NoRequestOnceDeleteSent ==
    [][\A t \in Tasks :
          (isInstanceDeleted \/ \E u \in Tasks \ {t} : DeletePending(u)) =>
              ~SendsToInstance(t)]_vars

\* C35, amended: no operation sends a request under the path of the instance
\* once the DELETE request has been answered; while it is in flight the flag
\* is not yet set, and an operation invoked then sends its request.
C35_NoRequestOnceDeleted ==
    [][\A t \in Tasks :
          /\ SendsToInstance(t) => ~isInstanceDeleted
          /\ (/\ ~isInstanceDeleted
              /\ \E u \in Tasks \ {t} : DeletePending(u)
              /\ CanInvoke(t)
              /\ task'[t] # task[t]) =>
                 /\ task'[t].pc = "wait"
                 /\ Len(task'[t].log) = 1]_vars

\* The DELETE of one task is in flight and a tick of the other has been sent
\* and answered meanwhile: the awaitCall is at the status read of its first
\* round.
C35_Witness ==
    /\ ~isInstanceDeleted
    /\ DeletePending("other")
    /\ task["caller"].op = "awaitCall"
    /\ task["caller"].pc = "wait"
    /\ Len(task["caller"].log) = 2

\* ------------------------------------------------------------------------
\* Properties of the transport client: what a post delivers
\* ------------------------------------------------------------------------

\* A step of a jsonPost call that sends its POST.
Posts ==
    /\ http.call = "jsonPost"
    /\ Len(http'.log) > Len(http.log)
    /\ http'.log[Len(http'.log)].method = "POST"

\* C36: a call of jsonPost, which every state-changing operation of the
\* session client makes once, delivers its POST to the server at most once:
\* the POST is never sent again after the server has answered a request of
\* the call, whatever the answer.
C36_PostDeliveredOnce ==
    [][Posts => http.first = NoResponse]_vars

\* The last request of the call is its POST and the answer to it has come.
PostAnswered ==
    /\ http.call = "jsonPost"
    /\ http.race = "fetch"
    /\ http.pc # "fetch"
    /\ http.log[Len(http.log)].method = "POST"

\* C37: when the answer to the POST of jsonPost has a body that parses to
\* null, jsonPost returns null whatever the status of the answer, 409 and 500
\* included, and sends no further request.
C37_NullBodyReturnsNull ==
    (PostAnswered /\ http.last.body = Null) =>
        /\ http.pc = "done"
        /\ http.result = Ret(Null)

\* jsonPost has returned null on a 500 answer to its only request.
C37_Witness ==
    /\ PostAnswered
    /\ http.last = FetchResponse(500, Null)
    /\ http.result = Ret(Null)
    /\ Len(http.log) = 1

====
